---- MODULE Spec2Model ----
(***************************************************************************)
(* Model of the NC punch-program engine (NCFileGenerator) of joistapp.     *)
(*                                                                         *)
(* Units.  Every length held in the state (positions, derived scalars) is  *)
(* an integer number of TENTHS of a millimetre, so that 29.5 mm is 295 and *)
(* a manually typed position such as 79.7 mm is 797.  The fields of a      *)
(* ProfileData record are in millimetres, as the forms supply them, except *)
(* stubPositions, which are in tenths.  Program constants that are whole   *)
(* millimetres keep their source value and are scaled with T(_) where they *)
(* are used.  Quantities the code computes by division (openingCentres,    *)
(* tabOffset, the spacings and unrounded positions of the planner) are     *)
(* JavaScript numbers in millimetres, see Num below.                       *)
(***************************************************************************)
EXTENDS Integers, Sequences, FiniteSets, TLC

VARIABLES calculations, partCode, quantity, manualPunches, isManualMode,
          updateVersion, lastCall

vars == <<calculations, partCode, quantity, manualPunches, isManualMode,
          updateVersion, lastCall>>

----------------------------------------------------------------------------
(* Bounds of the model *)

MaxVersion == 3
MaxManual == 2

----------------------------------------------------------------------------
(* MANUFACTURING_CONSTANTS (millimetres unless noted) *)

END_EXCLUSION_BASE == 300
MIN_CLEARANCE == 50
DIMPLE_SPACING_BEARER == 450
SERVICE_HOLE_SPACING == 650
POSITION_TOLERANCE == 10
FLANGE_HEIGHT == 63
JOIST_FLANGE_HEIGHT == 59
DEFAULT_HOLE_DIAMETER == 200
END_BOLT_POSITION == 30

\* tenths of a millimetre
T(mm) == mm * 10

\* 29.5 mm, alternating sign (tenths)
BOLT_OFFSET_PATTERN == <<-295, 295>>
\* 479.5 mm (tenths)
DIMPLE_START_BEARER == T(479) + 5
\* 1.8 mm (tenths)
PROFILE_THICKNESS == T(1) + 8
\* 902.3 mm (tenths)
DEFAULT_HOLE_EDGE_DISTANCE == T(902) + 3

----------------------------------------------------------------------------
(* Arithmetic helpers *)

Abs(x) == IF x < 0 THEN -x ELSE x

----------------------------------------------------------------------------
(* JavaScript numbers.  A number the planner computes by division is an    *)
(* IEEE-754 double: every /, *, + and - returns the exact result rounded   *)
(* to 53 significant bits, ties to the even neighbour.  A number is held   *)
(* here in MILLIMETRES as a sign and a magnitude of five limbs,            *)
(*     m[1] + m[2]/LIMB + m[3]/LIMB^2 + m[4]/LIMB^3 + m[5]/LIMB^4,         *)
(* that is with 60 binary places, which holds every double of magnitude    *)
(* between 2^-7 and 2^21 exactly; the planner's lengths, spacings and      *)
(* positions lie in that range.                                            *)

LIMB == 2^15

\* the limbs i, i-1, ..., 2 brought back into 0..LIMB-1, carries and
\* borrows moved up
RECURSIVE MagCarry(_, _)
MagCarry(t, i) ==
    IF i = 1 THEN t
    ELSE MagCarry([t EXCEPT ![i] = @ % LIMB, ![i - 1] = @ + (t[i] \div LIMB)], i - 1)

MagLt(a, b) ==
    \E i \in 1..5 : a[i] < b[i] /\ \A j \in 1..(i - 1) : a[j] = b[j]

\* a + sign * b for sign = 1, or sign = -1 and a >= b
MagSum(a, sign, b) == MagCarry([i \in 1..5 |-> a[i] + sign * b[i]], 5)

\* a * k for an integer 0 <= k < 2^15
MagMulI(a, k) == MagCarry([i \in 1..5 |-> a[i] * k], 5)

\* long division of a by an integer 0 < n < 2^16: what limb i holds when
\* its quotient digit is taken, the remainder of limb i - 1 carried in
RECURSIVE MagRem(_, _, _)
MagRem(a, n, i) ==
    IF i = 1 THEN a[1] ELSE (MagRem(a, n, i - 1) % n) * LIMB + a[i]

\* a / n: the quotient cut after 60 binary places, and whether anything
\* was cut off
MagDivI(a, n) ==
    [m |-> [i \in 1..5 |-> MagRem(a, n, i) \div n], sticky |-> MagRem(a, n, 5) % n # 0]

\* the position of the leading bit of an integer 0 < x < 2^30
ILog2(x) == CHOOSE k \in 0..29 : 2^k <= x /\ x < 2^(k + 1)

\* an exact magnitude m (plus something below the last place when sticky)
\* cut to a multiple of unit = 2^drop, the nearest one, the even one on a
\* tie: what is cut off, doubled, is compared with unit, and counts one
\* more when the last place kept is odd
MagCut(m, sticky, unit) ==
    LET low == m[4] * LIMB + m[5]
    IN  IF unit = 1 THEN m
        ELSE MagCarry([m EXCEPT ![4] = 0,
                                ![5] = unit * ((low \div unit)
                                       + (IF 2 * (low % unit) + (IF sticky THEN 1 ELSE 0)
                                             + ((low \div unit) % 2) > unit
                                          THEN 1 ELSE 0))], 5)

\* rounding to a double: 53 significant bits are kept.  With the leading
\* bit at 2^lead the double keeps 52 - lead binary places, so the last
\* lead + 8 of the 60 places go.
RoundDouble(x) ==
    MagCut(x.m, x.sticky, IF x.m[1] > 0 THEN 2^(ILog2(x.m[1]) + 8)
                          ELSE IF x.m[2] >= 2^8 THEN 2^(ILog2(x.m[2]) - 7)
                          ELSE 1)

Num(neg, m) == [neg |-> neg /\ m # <<0, 0, 0, 0, 0>>, m |-> m]

\* a / n, n a positive integer
NumDivI(a, n) == Num(a.neg, RoundDouble(MagDivI(a.m, n)))

\* the number written with one decimal, given in tenths: the double
\* nearest to t / 10, which is t / 10 itself for a multiple of 0.5
NumTenths(t) == IF t % 5 = 0 THEN Num(t < 0, <<Abs(t) \div 10, ((Abs(t) % 10) * LIMB) \div 10, 0, 0, 0>>)
                ELSE NumDivI(Num(t < 0, <<Abs(t), 0, 0, 0, 0>>), 10)

NumAbs(a) == Num(FALSE, a.m)

\* the larger magnitude comes first; equal signs add, opposite subtract
RECURSIVE NumAdd(_, _)
NumAdd(a, b) ==
    IF a.neg # b.neg /\ MagLt(a.m, b.m) THEN NumAdd(b, a)
    ELSE Num(a.neg, RoundDouble([m |-> MagSum(a.m, IF a.neg = b.neg THEN 1 ELSE -1, b.m),
                                 sticky |-> FALSE]))

NumSub(a, b) == NumAdd(a, Num(~b.neg, b.m))

\* k * a, k an integer 0 <= k < 2^15
NumMulI(a, k) == Num(a.neg, RoundDouble([m |-> MagMulI(a.m, k), sticky |-> FALSE]))

NumLt(a, b) ==
    IF a.neg # b.neg THEN a.neg
    ELSE IF a.neg THEN MagLt(b.m, a.m)
    ELSE MagLt(a.m, b.m)

\* Math.ceil(a)
NumCeil(a) ==
    IF a.neg THEN -(a.m[1])
    ELSE a.m[1] + (IF <<a.m[2], a.m[3], a.m[4], a.m[5]>> # <<0, 0, 0, 0>> THEN 1 ELSE 0)

\* the largest integer q >= q0 with q * b <= a, for magnitudes a and b > 0
RECURSIVE MagQuotient(_, _, _)
MagQuotient(a, b, q) ==
    IF MagLt(a, MagMulI(b, q + 1)) THEN q ELSE MagQuotient(a, b, q + 1)

\* d * 2^s <= b for magnitudes d and b.  The double nearest to a / b is the
\* integer n, for a / b at a distance d / b from n on the side where the
\* doubles lie 2^e apart, when that distance is no more than 2^(e - 1) (on
\* a tie n, whose last bit is 0, is the even neighbour): d * 2^(1 - e) <= b
RECURSIVE MagShiftLe(_, _, _)
MagShiftLe(d, s, b) ==
    IF MagLt(b, d) THEN FALSE
    ELSE IF s = 0 THEN TRUE
    ELSE MagShiftLe(MagMulI(d, 2^(IF s < 8 THEN s ELSE 8)), s - (IF s < 8 THEN s ELSE 8), b)

\* Math.floor(a / b) for numbers a and b > 0 (b at least 1): the exact
\* quotient of the doubles a and b is rounded to a double before the floor
\* is taken, so a quotient just below an integer can become that integer.
\* Doubles just below q + 1 lie 2^(k - 52) apart, k the leading bit of
\* q + 1, and 2^(k - 53) apart when q + 1 is a power of two.
NumFloorDiv(a, b) ==
    LET Floor(q) ==
            IF ~a.neg
            THEN IF MagShiftLe(MagSum(MagMulI(b.m, q + 1), -1, a.m),
                               IF q + 1 = 2^ILog2(q + 1) THEN 54 - ILog2(q + 1)
                               ELSE 53 - ILog2(q + 1),
                               b.m)
                 THEN q + 1 ELSE q
            ELSE IF a.m = MagMulI(b.m, q) THEN -q
            ELSE IF q > 0 /\ MagShiftLe(MagSum(a.m, -1, MagMulI(b.m, q)), 53 - ILog2(q), b.m)
                 THEN -q
            ELSE -(q + 1)
    IN  Floor(MagQuotient(a.m, b.m, a.m[1] \div (b.m[1] + 1)))

\* roundHalf(value) = Math.round(value * 2) / 2, in tenths of a millimetre;
\* Math.round returns the integer nearest to its argument, the upper one
\* on a tie
roundHalfNum(a) ==
    LET Round(twice) ==
            IF ~a.neg THEN twice[1] + (IF twice[2] >= LIMB \div 2 THEN 1 ELSE 0)
            ELSE -(twice[1] + (IF MagLt(<<0, LIMB \div 2, 0, 0, 0>>, [twice EXCEPT ![1] = 0])
                               THEN 1 ELSE 0))
    IN  5 * Round(MagMulI(a.m, 2))

\* roundHalf of a value given in tenths.  A value of one decimal is at
\* least 0.05 from every boundary between two results, further than its
\* double is from it, so the result is that of the exact value.
roundHalf(x) == 5 * ((2 * x + 5) \div 10)

\* the same offset for every index
calculateBoltOffsetFixed(index) == BOLT_OFFSET_PATTERN[1]

calculateBoltOffset(index) == BOLT_OFFSET_PATTERN[(index % Len(BOLT_OFFSET_PATTERN)) + 1]

isBearerProfile(profileType) == profileType \in {"Bearer Single", "Bearer Box"}
isJoistProfile(profileType) == profileType \in {"Joist Single", "Joist Box"}

\* a punch emitted disabled
PunchInactive(pos, type) == [position |-> pos, active |-> FALSE, type |-> type]
Punch(pos, type) == [position |-> pos, active |-> TRUE, type |-> type]

\* Array.prototype.sort with comparator (a, b) => a.position - b.position
\* (stable): insertion of each element after the elements not greater
RECURSIVE InsertByPosition(_, _)
InsertByPosition(s, p) ==
    IF s = <<>> THEN <<p>>
    ELSE IF s[Len(s)].position <= p.position THEN Append(s, p)
    ELSE Append(InsertByPosition(SubSeq(s, 1, Len(s) - 1), p), s[Len(s)])

RECURSIVE SortByPosition(_)
SortByPosition(s) ==
    IF s = <<>> THEN <<>>
    ELSE InsertByPosition(SortByPosition(SubSeq(s, 1, Len(s) - 1)), s[Len(s)])

\* punchStations.some(ps => ps.station === name && ps.enabled): the model
\* keeps the set of enabled station names
StationEnabled(punchStations, name) == name \in punchStations
ServiceHoleStations == {"M SERVICE HOLE", "SMALL SERVICE HOLE", "LARGE SERVICE HOLE"}
AnyServiceHoleEnabled(punchStations) == punchStations \cap ServiceHoleStations # {}

----------------------------------------------------------------------------
(* NCFileGenerator: pure helpers *)

initializeCalculations ==
    [boltHoles |-> <<>>, webHoles |-> <<>>, serviceHoles |-> <<>>,
     dimples |-> <<>>, stubs |-> <<>>,
     endExclusion |-> 0, lengthMod |-> 0,
     openingCentres |-> NumTenths(T(SERVICE_HOLE_SPACING)),
     holeQty |-> 0, tabOffset |-> NumTenths(0),
     flange |-> T(FLANGE_HEIGHT), thickness |-> PROFILE_THICKNESS,
     holeDia |-> T(DEFAULT_HOLE_DIAMETER),
     holeEdgeDistance |-> DEFAULT_HOLE_EDGE_DISTANCE]

\* millimetres
getHoleDiameter(holeType) ==
    CASE holeType = "50mm" -> 50
      [] holeType \in {"200mm", "200 Round"} -> 200
      [] holeType = "110 Round" -> 110
      [] holeType \in {"200mm x 400mm", "200 x 400 Oval"} -> 400
      [] holeType \in {"115 Round", "115mm"} -> 115
      [] OTHER -> DEFAULT_HOLE_DIAMETER

getServiceHoleType(holeType) ==
    CASE holeType \in {"115 Round", "115mm"} -> "SMALL SERVICE HOLE"
      [] holeType \in {"200mm x 400mm", "200 x 400 Oval"} -> "LARGE SERVICE HOLE"
      [] OTHER -> "M SERVICE HOLE"

----------------------------------------------------------------------------
(* Layout planner: bearers *)

\* the dimple loop running to the end of the member
BearerDimpleLoopToEnd(pos, length) ==
    [k \in 1..(((length - pos) \div T(DIMPLE_SPACING_BEARER)) + 1) |->
        Punch(pos + (k - 1) * T(DIMPLE_SPACING_BEARER), "DIMPLE")]

\* for (pos = DIMPLE_START_BEARER; pos <= length - 270.5; pos += 450)
RECURSIVE BearerDimpleLoop(_, _)
BearerDimpleLoop(pos, length) ==
    IF pos <= length - 2705
    THEN <<Punch(pos, "DIMPLE")>> \o BearerDimpleLoop(pos + T(DIMPLE_SPACING_BEARER), length)
    ELSE <<>>

\* joist-box loop, SERVICE hits: while (currentPos <= endOffset)
RECURSIVE JoistBoxStubLoop(_, _, _)
JoistBoxStubLoop(currentPos, endOffset, joistSpacing) ==
    IF currentPos <= endOffset
    THEN <<Punch(roundHalf(currentPos - T(12)), "SERVICE"),
           Punch(roundHalf(currentPos + T(12)), "SERVICE")>>
         \o JoistBoxStubLoop(currentPos + joistSpacing, endOffset, joistSpacing)
    ELSE <<>>

\* joist-box loop, centred dimples
RECURSIVE JoistBoxDimpleLoop(_, _, _, _, _)
JoistBoxDimpleLoop(currentPos, endOffset, joistSpacing, length, isDimpleEnabled) ==
    IF currentPos <= endOffset
    THEN (IF isDimpleEnabled /\ currentPos > T(MIN_CLEARANCE)
             /\ currentPos < length - T(MIN_CLEARANCE)
          THEN <<Punch(roundHalf(currentPos), "DIMPLE")>> ELSE <<>>)
         \o JoistBoxDimpleLoop(currentPos + joistSpacing, endOffset, joistSpacing,
                               length, isDimpleEnabled)
    ELSE <<>>

\* symmetric run of service holes: maxServiceHoles holes at spacing oc,
\* serviceStart = startPos + (availableLength - totalServiceSpan) / 2;
\* startPos, availableLength and oc are numbers
SymmetricServiceHoles(startPos, availableLength, oc, serviceHoleType) ==
    LET Holes(maxServiceHoles) ==
            LET totalServiceSpan == NumMulI(oc, maxServiceHoles - 1)
                serviceStart == NumAdd(startPos,
                                       NumDivI(NumSub(availableLength, totalServiceSpan), 2))
            IN  IF maxServiceHoles >= 1
                THEN [i \in 1..maxServiceHoles |->
                        Punch(roundHalfNum(NumAdd(serviceStart, NumMulI(oc, i - 1))),
                              serviceHoleType)]
                ELSE <<>>
    IN  Holes(NumFloorDiv(availableLength, oc))

generateCoordinatedBearerHoles(calc, length, joistSpacing, holeType, punchStations) ==
    LET isWebTabEnabled == StationEnabled(punchStations, "WEB TAB")
        isServiceHoleEnabled == AnyServiceHoleEnabled(punchStations)
        serviceHoleSpacing == calc.openingCentres
        availableLength == NumSub(NumTenths(length), NumMulI(serviceHoleSpacing, 2))
        services == IF holeType # "No Holes" /\ isServiceHoleEnabled
                    THEN SymmetricServiceHoles(serviceHoleSpacing, availableLength,
                                               serviceHoleSpacing, getServiceHoleType(holeType))
                    ELSE <<>>
        startOffset == joistSpacing
        endOffset == length - joistSpacing
        numWebTabs == NumFloorDiv(NumTenths(endOffset - startOffset),
                                  NumTenths(joistSpacing)) + 1
        tabPositions == SelectSeq([i \in 1..numWebTabs |-> startOffset + (i - 1) * joistSpacing],
                                  LAMBDA position : position <= endOffset)
        tabs == IF isWebTabEnabled
                THEN [i \in 1..Len(tabPositions) |-> Punch(roundHalf(tabPositions[i]), "WEB TAB")]
                ELSE <<>>
    IN  [calc EXCEPT !.serviceHoles = @ \o services, !.webHoles = @ \o tabs]

\* sortedWebTabs.forEach((webTab, index) => ...) of generateBearerHoles:
\* a partner bolt at webTab + offset unless a bolt already lies within
\* POSITION_TOLERANCE or the position is within MIN_CLEARANCE of an end
RECURSIVE PairedBearerBolts(_, _, _, _)
PairedBearerBolts(bolts, sortedWebTabs, index, length) ==
    IF index >= Len(sortedWebTabs) THEN bolts
    ELSE LET offset == calculateBoltOffset(index)
             expectedBoltPosition == sortedWebTabs[index + 1].position + offset
             existingBolt == \E b \in 1..Len(bolts) :
                                Abs(bolts[b].position - expectedBoltPosition) < T(POSITION_TOLERANCE)
             next == IF ~existingBolt /\ expectedBoltPosition > T(MIN_CLEARANCE)
                        /\ expectedBoltPosition < length - T(MIN_CLEARANCE)
                     THEN Append(bolts, Punch(roundHalf(expectedBoltPosition), "BOLT HOLE"))
                     ELSE bolts
         IN  PairedBearerBolts(next, sortedWebTabs, index + 1, length)

\* stubPositions.forEach without the range test
StubPunchesUnfiltered(stubPositions, lo, hi) ==
    [i \in 1..Len(stubPositions) |-> Punch(stubPositions[i], "SERVICE")]

\* stubPositions.forEach: positions strictly inside (lo, hi) become SERVICE punches
StubPunches(stubPositions, lo, hi) ==
    LET kept == SelectSeq(stubPositions, LAMBDA pos : pos > lo /\ pos < hi)
    IN  [i \in 1..Len(kept) |-> Punch(kept[i], "SERVICE")]

generateBearerHoles(calc, length, joistSpacing, holeType, stubPositions, stubsEnabled, punchStations, joistBox) ==
    LET isBoltHoleEnabled == StationEnabled(punchStations, "BOLT HOLE")
        isServiceEnabled == StationEnabled(punchStations, "SERVICE")
        isDimpleEnabled == StationEnabled(punchStations, "DIMPLE")
        endBolts == IF isBoltHoleEnabled /\ ~joistBox
                    THEN <<Punch(T(END_BOLT_POSITION), "BOLT HOLE"),
                           Punch(length - T(END_BOLT_POSITION), "BOLT HOLE")>>
                    ELSE <<>>
        gridDimples == IF isDimpleEnabled THEN BearerDimpleLoop(DIMPLE_START_BEARER, length)
                       ELSE <<>>
        c1 == [calc EXCEPT !.boltHoles = @ \o endBolts, !.dimples = @ \o gridDimples]
    IN  IF joistBox /\ isServiceEnabled
        THEN LET endDimples == IF isDimpleEnabled
                               THEN <<Punch(T(END_BOLT_POSITION), "DIMPLE"),
                                      Punch(length - T(END_BOLT_POSITION), "DIMPLE")>>
                               ELSE <<>>
                 startOffset == joistSpacing
                 endOffset == length - joistSpacing
             IN  [c1 EXCEPT
                    !.dimples = @ \o endDimples
                                  \o JoistBoxDimpleLoop(startOffset, endOffset, joistSpacing,
                                                        length, isDimpleEnabled),
                    !.stubs = @ \o JoistBoxStubLoop(startOffset, endOffset, joistSpacing)
                                \o <<Punch(T(131), "SERVICE"),
                                     Punch(length - T(131), "SERVICE")>>]
        ELSE LET \* c2 is the layout generateCoordinatedBearerHoles leaves
                 WithPairedBolts(c2) ==
                     LET sortedWebTabs == SortByPosition(SelectSeq(c2.webHoles,
                                                                   LAMBDA w : w.active))
                     IN  IF isBoltHoleEnabled
                         THEN [c2 EXCEPT !.boltHoles =
                                  PairedBearerBolts(@, sortedWebTabs, 0, length)]
                         ELSE c2
                 WithStubs(c3) ==
                     IF isServiceEnabled
                     THEN [c3 EXCEPT !.stubs = @ \o <<Punch(T(131), "SERVICE"),
                                                     Punch(length - T(131), "SERVICE")>>
                                                 \o StubPunches(stubPositions, 0, length)]
                     ELSE c3
             IN  WithStubs(WithPairedBolts(generateCoordinatedBearerHoles(c1, length,
                               joistSpacing, holeType, punchStations)))

\* screens mode: first position, then first + joistSpacing, ... while below
\* the last position, then the last position
RECURSIVE ScreensIntermediate(_, _, _)
ScreensIntermediate(currentPos, lastWebTab, joistSpacing) ==
    IF currentPos < lastWebTab
    THEN <<currentPos>> \o ScreensIntermediate(currentPos + joistSpacing, lastWebTab, joistSpacing)
    ELSE <<>>

ScreensBearerPositions(length, joistSpacing) ==
    LET firstWebTab == T(475)
        lastWebTab == length - T(475)
        workingLength == lastWebTab - firstWebTab
    IN  <<firstWebTab>>
        \o (IF workingLength > 0
            THEN ScreensIntermediate(firstWebTab + joistSpacing, lastWebTab, joistSpacing)
            ELSE <<>>)
        \o <<lastWebTab>>

\* one punch per listed position that lies strictly inside (50, length - 50),
\* at roundHalf(position + offset(index))
InteriorBolts(positions, length, offsets) ==
    LET Offset(index) == offsets[(index % Len(offsets)) + 1]
        idx == SelectSeq([i \in 1..Len(positions) |-> i],
                         LAMBDA i : positions[i] + Offset(i - 1) > T(50)
                                    /\ positions[i] + Offset(i - 1) < length - T(50))
    IN  [k \in 1..Len(idx) |->
            Punch(roundHalf(positions[idx[k]] + Offset(idx[k] - 1)), "BOLT HOLE")]

\* joistPositions.forEach: triple SERVICE hit
RECURSIVE TripleServiceHits(_)
TripleServiceHits(positions) ==
    IF positions = <<>> THEN <<>>
    ELSE <<Punch(roundHalf(Head(positions) - T(12)), "SERVICE"),
           Punch(roundHalf(Head(positions)), "SERVICE"),
           Punch(roundHalf(Head(positions) + T(12)), "SERVICE")>>
         \o TripleServiceHits(Tail(positions))

generateScreensBearerHoles(calc, length, joistSpacing, holeType, stubPositions, stubsEnabled, punchStations, joistBox) ==
    LET isBoltHoleEnabled == StationEnabled(punchStations, "BOLT HOLE")
        isWebTabEnabled == StationEnabled(punchStations, "WEB TAB")
        isDimpleEnabled == StationEnabled(punchStations, "DIMPLE")
        isServiceHoleEnabled == AnyServiceHoleEnabled(punchStations)
        isServiceEnabled == StationEnabled(punchStations, "SERVICE")
        endBolts == IF isBoltHoleEnabled
                    THEN <<Punch(T(30), "BOLT HOLE"), Punch(length - T(30), "BOLT HOLE")>>
                    ELSE <<>>
        gridDimples == IF isDimpleEnabled THEN BearerDimpleLoop(T(479) + 5, length) ELSE <<>>
        c1 == [calc EXCEPT !.boltHoles = @ \o endBolts, !.dimples = @ \o gridDimples]
        positions == ScreensBearerPositions(length, joistSpacing)
        c2 == IF joistBox /\ isServiceEnabled
              THEN [c1 EXCEPT
                      !.stubs = @ \o TripleServiceHits(positions)
                                  \o <<Punch(T(131), "SERVICE"),
                                       Punch(length - T(131), "SERVICE")>>,
                      !.boltHoles = @ \o (IF isBoltHoleEnabled
                                          THEN InteriorBolts(positions, length, <<0>>)
                                          ELSE <<>>)]
              ELSE LET c1a == IF isWebTabEnabled
                              THEN [c1 EXCEPT
                                      !.webHoles = @ \o [i \in 1..Len(positions) |->
                                                           Punch(roundHalf(positions[i]), "WEB TAB")],
                                      !.boltHoles = @ \o (IF isBoltHoleEnabled
                                                          THEN InteriorBolts(positions, length, <<-295, 295>>)
                                                          ELSE <<>>)]
                              ELSE c1
                       userStubs == IF stubsEnabled /\ Len(stubPositions) > 0
                                    THEN StubPunches(stubPositions, 0, length - T(400))
                                    ELSE <<>>
                       brackets == IF stubsEnabled
                                   THEN StubPunches(<<T(131), length - T(131),
                                                      T(331), length - T(331)>>, 0, length)
                                   ELSE <<>>
                   IN  [c1a EXCEPT !.stubs = @ \o userStubs \o brackets]
        serviceHoleSpacing == calc.openingCentres
        startPos == serviceHoleSpacing
        endPos == NumSub(NumTenths(length), serviceHoleSpacing)
        availableLength == NumSub(endPos, startPos)
    IN  IF holeType # "No Holes" /\ isServiceHoleEnabled
        THEN [c2 EXCEPT !.serviceHoles = @ \o SymmetricServiceHoles(startPos, availableLength,
                                   serviceHoleSpacing, getServiceHoleType(holeType))]
        ELSE c2

----------------------------------------------------------------------------
(* Layout planner: joists *)

\* for (basePos = 600; basePos < length - 75; basePos += 600)
RECURSIVE JoistDimpleLoop(_, _)
JoistDimpleLoop(basePos, length) ==
    IF basePos < length - T(75)
    THEN <<Punch(basePos - T(75), "DIMPLE")>>
         \o (IF basePos + T(75) < length - T(75)
             THEN <<Punch(basePos + T(75), "DIMPLE")>> ELSE <<>>)
         \o JoistDimpleLoop(basePos + T(600), length)
    ELSE <<>>

JoistDimples(length) ==
    <<Punch(T(75), "DIMPLE")>> \o JoistDimpleLoop(T(600), length)
    \o <<Punch(length - T(75), "DIMPLE")>>

\* servicePositions.reduce((nearest, servicePos) => ...): the hole nearest
\* to idealPosition, the earlier one on a tie
RECURSIVE NearestHole(_, _, _, _)
NearestHole(nearest, servicePositions, k, idealPosition) ==
    IF k > Len(servicePositions) THEN nearest
    ELSE LET currentDist == NumAbs(NumSub(idealPosition, NumTenths(servicePositions[k])))
             nearestDist == NumAbs(NumSub(idealPosition, NumTenths(nearest)))
         IN  NearestHole(IF NumLt(currentDist, nearestDist) THEN servicePositions[k] ELSE nearest,
                         servicePositions, k + 1, idealPosition)

\* the loop over the gaps between adjacent service holes; best is
\* [found, position, score], score = Infinity while nothing is found;
\* minWebTabSpacing * 0.8 is the double 800 for the spacing 1000 passed
RECURSIVE BestGapCentre(_, _, _, _, _, _, _)
BestGapCentre(best, servicePositions, j, idealPosition, webTabPositions, minClearance, minWebTabSpacing) ==
    IF j > Len(servicePositions) - 1 THEN best
    ELSE LET leftService == servicePositions[j]
             rightService == servicePositions[j + 1]
             Better(gapCenter, distanceFromIdeal) ==
                 LET clearanceFromLeft == NumSub(gapCenter, NumTenths(leftService))
                     clearanceFromRight == NumSub(NumTenths(rightService), gapCenter)
                     tooClose == \E w \in 1..Len(webTabPositions) :
                                     NumLt(NumAbs(NumSub(webTabPositions[w], gapCenter)),
                                           NumTenths((minWebTabSpacing * 8) \div 10))
                 IN  IF /\ ~NumLt(clearanceFromLeft, NumTenths(minClearance))
                        /\ ~NumLt(clearanceFromRight, NumTenths(minClearance))
                        /\ NumLt(distanceFromIdeal, NumTenths(T(650)))
                        /\ (~best.found \/ NumLt(distanceFromIdeal, best.score))
                        /\ ~tooClose
                     THEN [found |-> TRUE, position |-> gapCenter, score |-> distanceFromIdeal]
                     ELSE best
             Gap(gapCenter) == Better(gapCenter, NumAbs(NumSub(gapCenter, idealPosition)))
         IN  BestGapCentre(Gap(NumDivI(NumTenths(leftService + rightService), 2)),
                           servicePositions, j + 1, idealPosition, webTabPositions,
                           minClearance, minWebTabSpacing)

\* for (i = 1; i <= minWebTabs; i++) of generateWebTabsBetweenServiceHoles;
\* webTabPositions are numbers, rounded to half millimetres when stored
RECURSIVE WebTabSlots(_, _, _, _, _, _, _, _)
WebTabSlots(webTabPositions, i, minWebTabs, startPos, endPos, idealSpacing, servicePositions, minWebTabSpacing) ==
    IF i > minWebTabs THEN webTabPositions
    ELSE LET minClearance == T(150)
             Clear(p) == \A k \in 1..Len(servicePositions) :
                            ~NumLt(NumAbs(NumSub(p, NumTenths(servicePositions[k]))),
                                   NumTenths(minClearance))
             Spaced(p) == ~\E w \in 1..Len(webTabPositions) :
                             NumLt(NumAbs(NumSub(webTabPositions[w], p)),
                                   NumTenths((minWebTabSpacing * 8) \div 10))
             \* the fallback: a shift to the right or left of the conflicting hole
             Shifted(idealPosition, conflictingHole) ==
                 LET shiftedRight == conflictingHole + minClearance
                     shiftedLeft == conflictingHole - minClearance
                     rightHasClearance == shiftedRight <= endPos /\ Clear(NumTenths(shiftedRight))
                                          /\ Spaced(NumTenths(shiftedRight))
                     leftHasClearance == shiftedLeft >= startPos /\ Clear(NumTenths(shiftedLeft))
                                         /\ Spaced(NumTenths(shiftedLeft))
                 IN  IF rightHasClearance
                        /\ (~leftHasClearance
                            \/ ~NumLt(NumAbs(NumSub(NumTenths(shiftedLeft), idealPosition)),
                                      NumAbs(NumSub(NumTenths(shiftedRight), idealPosition))))
                     THEN Append(webTabPositions, NumTenths(shiftedRight))
                     ELSE IF leftHasClearance THEN Append(webTabPositions, NumTenths(shiftedLeft))
                     ELSE webTabPositions
             Placed(idealPosition, best) ==
                 IF Clear(idealPosition) THEN Append(webTabPositions, idealPosition)
                 ELSE IF best.found THEN Append(webTabPositions, best.position)
                 ELSE Shifted(idealPosition,
                              NearestHole(servicePositions[1], servicePositions, 2, idealPosition))
             Slot(idealPosition) ==
                 Placed(idealPosition,
                        BestGapCentre([found |-> FALSE, position |-> NumTenths(0),
                                       score |-> NumTenths(0)],
                                      servicePositions, 1, idealPosition, webTabPositions,
                                      minClearance, minWebTabSpacing))
         IN  WebTabSlots(Slot(NumAdd(NumTenths(startPos), NumMulI(idealSpacing, i))), i + 1,
                         minWebTabs, startPos, endPos, idealSpacing, servicePositions,
                         minWebTabSpacing)

\* web tabs at the ideal positions, no clearance test
generateWebTabsBetweenServiceHolesIdealOnly(servicePositions, minWebTabSpacing, maxWebTabSpacing) ==
    IF Len(servicePositions) = 0 THEN <<>>
    ELSE LET startPos == servicePositions[1]
             endPos == servicePositions[Len(servicePositions)]
             availableLength == endPos - startPos
             minWebTabs == NumCeil(NumDivI(NumTenths(availableLength),
                                           maxWebTabSpacing \div 10))
             idealSpacing == NumDivI(NumTenths(availableLength), minWebTabs + 1)
         IN  IF availableLength < minWebTabSpacing THEN <<>>
             ELSE [k \in 1..minWebTabs |->
                     Punch(roundHalfNum(NumAdd(NumTenths(startPos), NumMulI(idealSpacing, k))),
                           "WEB TAB")]

\* returns the web tabs to append
generateWebTabsBetweenServiceHoles(servicePositions, minWebTabSpacing, maxWebTabSpacing) ==
    IF Len(servicePositions) = 0 THEN <<>>
    ELSE LET startPos == servicePositions[1]
             endPos == servicePositions[Len(servicePositions)]
             availableLength == endPos - startPos
             minWebTabs == NumCeil(NumDivI(NumTenths(availableLength),
                                           maxWebTabSpacing \div 10))
             idealSpacing == NumDivI(NumTenths(availableLength), minWebTabs + 1)
             Tabs(webTabPositions) ==
                 [k \in 1..Len(webTabPositions) |->
                     Punch(roundHalfNum(webTabPositions[k]), "WEB TAB")]
         IN  IF availableLength < minWebTabSpacing THEN <<>>
             ELSE Tabs(WebTabSlots(<<>>, 1, minWebTabs, startPos, endPos, idealSpacing,
                                   servicePositions, minWebTabSpacing))

generateServiceHolesWithWebTabs(calc, startPos, endPos, serviceHoleSpacing, minWebTabSpacing, maxWebTabSpacing, punchStations, holeType) ==
    LET isWebTabEnabled == StationEnabled(punchStations, "WEB TAB")
        availableLength == endPos - startPos
        holes == SymmetricServiceHoles(NumTenths(startPos), NumTenths(availableLength), serviceHoleSpacing,
                                       getServiceHoleType(holeType))
    IN  [calc EXCEPT
           !.serviceHoles = @ \o holes,
           !.webHoles = @ \o (IF isWebTabEnabled /\ holes # <<>>
                              THEN generateWebTabsBetweenServiceHoles(
                                       \* servicePositions
                                       [i \in DOMAIN holes |-> holes[i].position],
                                       minWebTabSpacing, maxWebTabSpacing)
                              ELSE <<>>)]

\* returns the web tabs to append
generateWebTabsOnly(startPos, endPos, minSpacing, maxSpacing) ==
    LET availableLength == endPos - startPos
        minWebTabs == NumCeil(NumDivI(NumTenths(availableLength), maxSpacing \div 10))
        numWebTabs == IF minWebTabs > 1 THEN minWebTabs ELSE 1
        actualSpacing == NumDivI(NumTenths(availableLength), numWebTabs + 1)
    IN  [i \in 1..numWebTabs |->
            Punch(roundHalfNum(NumAdd(NumTenths(startPos), NumMulI(actualSpacing, i))), "WEB TAB")]

generateCoordinatedJoistHoles(calc, length, holeType, punchStations) ==
    LET isWebTabEnabled == StationEnabled(punchStations, "WEB TAB")
        isServiceHoleEnabled == AnyServiceHoleEnabled(punchStations)
        availableLength == length - calc.endExclusion
        startOffset == calc.endExclusion \div 2
        serviceHoleSpacing == calc.openingCentres
        minWebTabSpacing == T(1000)
        maxWebTabSpacing == T(2600)
    IN  IF ~isWebTabEnabled THEN calc
        ELSE IF holeType # "No Holes" /\ isServiceHoleEnabled
        THEN generateServiceHolesWithWebTabs(calc, startOffset, startOffset + availableLength,
                 serviceHoleSpacing, minWebTabSpacing, maxWebTabSpacing, punchStations, holeType)
        ELSE [calc EXCEPT !.webHoles = @ \o generateWebTabsOnly(startOffset,
                 startOffset + availableLength, minWebTabSpacing, maxWebTabSpacing)]

\* webTabPositions.forEach of generateJoistHoles: a bolt centred on each
\* active web tab unless one already lies within POSITION_TOLERANCE
RECURSIVE CentredJoistBolts(_, _, _, _)
CentredJoistBolts(bolts, webTabPositions, k, length) ==
    IF k > Len(webTabPositions) THEN bolts
    ELSE LET webPos == webTabPositions[k]
             existingBolt == \E b \in 1..Len(bolts) :
                                Abs(bolts[b].position - webPos) < T(POSITION_TOLERANCE)
         IN  CentredJoistBolts(IF ~existingBolt /\ webPos > T(50) /\ webPos < length - T(50)
                               THEN Append(bolts, Punch(roundHalf(webPos), "BOLT HOLE"))
                               ELSE bolts,
                               webTabPositions, k + 1, length)

CornerBrackets(length, punchStations) ==
    IF StationEnabled(punchStations, "CORNER BRACKETS")
    THEN <<Punch(T(131), "CORNER BRACKETS"), Punch(length - T(131), "CORNER BRACKETS")>>
    ELSE <<>>

generateJoistHoles(calc, length, holeType, endBox, punchStations) ==
    LET isBoltHoleEnabled == StationEnabled(punchStations, "BOLT HOLE")
        isDimpleEnabled == StationEnabled(punchStations, "DIMPLE")
        endBolts == IF isBoltHoleEnabled
                    THEN <<Punch(T(30), "BOLT HOLE"), Punch(length - T(30), "BOLT HOLE")>>
                    ELSE <<>>
        c1 == [calc EXCEPT !.boltHoles = @ \o endBolts,
                           !.dimples = @ \o (IF isDimpleEnabled THEN JoistDimples(length) ELSE <<>>)]
        \* c2 is the layout generateCoordinatedJoistHoles leaves
        WithCentredBolts(c2) ==
            LET activeTabs == SelectSeq(c2.webHoles, LAMBDA w : w.active)
                webTabPositions == [k \in 1..Len(activeTabs) |-> activeTabs[k].position]
            IN  IF isBoltHoleEnabled
                THEN [c2 EXCEPT !.boltHoles = CentredJoistBolts(@, webTabPositions, 1, length)]
                ELSE c2
    IN  [WithCentredBolts(generateCoordinatedJoistHoles(c1, length, holeType, punchStations))
            EXCEPT !.stubs = @ \o CornerBrackets(length, punchStations)]

\* screens joist web-tab positions (numbers): 425, evenly spaced
\* intermediates at no more than 1200 mm, length - 425
ScreensJoistPositions(length) ==
    LET firstWebTab == T(425)
        lastWebTab == length - T(425)
        workingLength == lastWebTab - firstWebTab
        numIntermediateSpaces == NumCeil(NumDivI(NumTenths(workingLength), 1200))
        actualSpacing == NumDivI(NumTenths(workingLength), numIntermediateSpaces)
    IN  <<NumTenths(firstWebTab)>>
        \o (IF workingLength > 0
            THEN [i \in 1..(numIntermediateSpaces - 1) |->
                    NumAdd(NumTenths(firstWebTab), NumMulI(actualSpacing, i))]
            ELSE <<>>)
        \o <<NumTenths(lastWebTab)>>

\* service holes of one gap between consecutive web tabs, 650 mm apart
GapServiceHoles(startPos, endPos, serviceHoleType) ==
    LET serviceHoleSpacing == T(650)
        gapLength == endPos - startPos
        maxServiceHoles == NumFloorDiv(NumTenths(gapLength), NumTenths(serviceHoleSpacing))
        totalSpan == (maxServiceHoles - 1) * serviceHoleSpacing
        offset == NumDivI(NumTenths(gapLength - totalSpan), 2)
    IN  IF maxServiceHoles >= 1
        THEN [j \in 1..maxServiceHoles |->
                Punch(roundHalfNum(NumAdd(NumAdd(NumTenths(startPos), offset),
                                          NumTenths((j - 1) * serviceHoleSpacing))),
                      serviceHoleType)]
        ELSE <<>>

RECURSIVE ScreensJoistServiceHoles(_, _, _)
ScreensJoistServiceHoles(webTabPositions, i, serviceHoleType) ==
    IF i > Len(webTabPositions) - 1 THEN <<>>
    ELSE GapServiceHoles(webTabPositions[i], webTabPositions[i + 1], serviceHoleType)
         \o ScreensJoistServiceHoles(webTabPositions, i + 1, serviceHoleType)

\* Array.prototype.sort((a, b) => a - b) on numbers
SortNumbers(s) ==
    IF s = <<>> THEN <<>>
    ELSE LET sorted == SortByPosition([i \in 1..Len(s) |-> [position |-> s[i]]])
         IN  [i \in 1..Len(s) |-> sorted[i].position]

generateScreensJoistHoles(calc, length, joistSpacing, holeType, endBox, punchStations) ==
    LET isBoltHoleEnabled == StationEnabled(punchStations, "BOLT HOLE")
        isDimpleEnabled == StationEnabled(punchStations, "DIMPLE")
        isWebTabEnabled == StationEnabled(punchStations, "WEB TAB")
        isServiceHoleEnabled == AnyServiceHoleEnabled(punchStations)
        endBolts == IF isBoltHoleEnabled
                    THEN <<Punch(T(30), "BOLT HOLE"), Punch(length - T(30), "BOLT HOLE")>>
                    ELSE <<>>
        c1 == [calc EXCEPT !.boltHoles = @ \o endBolts,
                           !.dimples = @ \o (IF isDimpleEnabled THEN JoistDimples(length) ELSE <<>>)]
        \* positions are the web-tab positions
        WithWebTabs(positions) ==
            LET interior == SelectSeq(positions, LAMBDA webPos :
                                NumLt(NumTenths(T(50)), webPos)
                                /\ NumLt(webPos, NumTenths(length - T(50))))
            IN  IF isWebTabEnabled
                THEN [c1 EXCEPT
                        !.webHoles = @ \o [i \in 1..Len(positions) |->
                                             Punch(roundHalfNum(positions[i]), "WEB TAB")],
                        !.boltHoles = @ \o (IF isBoltHoleEnabled
                                            THEN [i \in 1..Len(interior) |->
                                                    Punch(roundHalfNum(interior[i]), "BOLT HOLE")]
                                            ELSE <<>>)]
                ELSE c1
        \* c2 is the layout with its web tabs
        WithServiceHoles(c2) ==
            LET webTabPositions == SortNumbers([i \in 1..Len(c2.webHoles) |->
                                                  c2.webHoles[i].position])
            IN  IF holeType # "No Holes" /\ isServiceHoleEnabled /\ isWebTabEnabled
                THEN [c2 EXCEPT !.serviceHoles =
                         @ \o ScreensJoistServiceHoles(webTabPositions, 1,
                                                       getServiceHoleType(holeType))]
                ELSE c2
    IN  [WithServiceHoles(WithWebTabs(ScreensJoistPositions(length)))
            EXCEPT !.stubs = @ \o CornerBrackets(length, punchStations)]

----------------------------------------------------------------------------
(* NCFileGenerator: the engine *)

\* generateHolePositions without the clearing of the five lists
generateHolePositionsKeepsLists(calc, profileType, length, joistSpacing, holeType, stubPositions, stubsEnabled, endBox, punchStations, screensEnabled, joistBox) ==
    IF isBearerProfile(profileType)
    THEN IF screensEnabled
         THEN generateScreensBearerHoles(calc, length, joistSpacing, holeType,
                                         stubPositions, stubsEnabled, punchStations, joistBox)
         ELSE generateBearerHoles(calc, length, joistSpacing, holeType, stubPositions,
                                  stubsEnabled, punchStations, joistBox)
    ELSE IF screensEnabled
         THEN generateScreensJoistHoles(calc, length, joistSpacing, holeType,
                                        profileType = "Joist Box", punchStations)
         ELSE generateJoistHoles(calc, length, holeType, profileType = "Joist Box", punchStations)

\* the five lists are emptied, then the branch for the profile fills them
generateHolePositions(calc, profileType, length, joistSpacing, holeType, stubPositions, stubsEnabled, endBox, punchStations, screensEnabled, joistBox) ==
    LET cleared == [calc EXCEPT !.boltHoles = <<>>, !.webHoles = <<>>, !.serviceHoles = <<>>,
                                !.dimples = <<>>, !.stubs = <<>>]
        useEndBox == profileType = "Joist Box"
    IN  IF isBearerProfile(profileType)
        THEN IF screensEnabled
             THEN generateScreensBearerHoles(cleared, length, joistSpacing, holeType,
                                             stubPositions, stubsEnabled, punchStations, joistBox)
             ELSE generateBearerHoles(cleared, length, joistSpacing, holeType, stubPositions,
                                      stubsEnabled, punchStations, joistBox)
        ELSE IF screensEnabled
             THEN generateScreensJoistHoles(cleared, length, joistSpacing, holeType, useEndBox,
                                            punchStations)
             ELSE generateJoistHoles(cleared, length, holeType, useEndBox, punchStations)

\* the part code set by updateCalculations: the program name, or the
\* fallback <prefix>_<profileHeight>_<length>_A
PartCodeOf(profileData, exportData) ==
    IF exportData.programName # ""
    THEN [name |-> exportData.programName, prefix |-> "", height |-> 0, length |-> 0]
    ELSE [name |-> "",
          prefix |-> IF isBearerProfile(profileData.profileType) THEN "B" ELSE "J",
          height |-> profileData.profileHeight, length |-> profileData.length]

\* the derived scalars of updateCalculations (lines 170-210)
DerivedScalars(calc, profileData) ==
    LET profileType == profileData.profileType
        holeDia == T(getHoleDiameter(profileData.holeType))
        endExclusion == ((holeDia \div 2) + T(END_EXCLUSION_BASE)) * 2
        lengthMod == T(profileData.length) - endExclusion
        desiredSpacing == IF profileData.holeSpacing # 0 THEN NumTenths(T(profileData.holeSpacing))
                          ELSE NumTenths(T(SERVICE_HOLE_SPACING))
        Scalars(spaces, openingCentres) ==
            [calc EXCEPT
               !.thickness = PROFILE_THICKNESS,
               !.flange = IF isJoistProfile(profileType) THEN T(JOIST_FLANGE_HEIGHT)
                          ELSE T(FLANGE_HEIGHT),
               !.holeDia = holeDia,
               !.endExclusion = endExclusion,
               !.lengthMod = lengthMod,
               !.holeEdgeDistance = IF isJoistProfile(profileType) THEN endExclusion \div 2
                                    ELSE DEFAULT_HOLE_EDGE_DISTANCE,
               !.holeQty = IF spaces < 1 THEN 1 ELSE spaces + 1,
               !.openingCentres = openingCentres,
               !.tabOffset = IF isJoistProfile(profileType)
                             THEN NumSub(NumAdd(NumTenths(endExclusion \div 2),
                                                NumMulI(openingCentres, 2)),
                                         NumDivI(openingCentres, 2))
                             ELSE NumTenths(T(profileData.joistSpacing))]
        WithSpaces(spaces) ==
            Scalars(spaces, IF spaces < 1 THEN desiredSpacing
                            ELSE NumDivI(NumTenths(lengthMod), spaces))
    IN  WithSpaces(NumFloorDiv(NumTenths(lengthMod), desiredSpacing))

\* the calculations after updateCalculations(profileData) from calc
UpdatedCalculations(calc, manual, profileData) ==
    IF ~manual
    THEN generateHolePositions(DerivedScalars(calc, profileData), profileData.profileType,
             T(profileData.length), T(profileData.joistSpacing), profileData.holeType,
             profileData.stubPositions, profileData.stubsEnabled, profileData.endBoxJoist,
             profileData.punchStations, profileData.screensEnabled, profileData.joistBox)
    ELSE DerivedScalars(calc, profileData)

\* punches.forEach of setManualPunches: the list is split by type, each
\* punch appended to its list in the order of the input
ManualPartition(calc, punches) ==
    LET Of(types) == SelectSeq(punches, LAMBDA punch : punch.type \in types)
    IN  [calc EXCEPT
           !.boltHoles = Of({"BOLT HOLE"}),
           !.webHoles = Of({"WEB TAB"}),
           !.serviceHoles = Of({"M SERVICE HOLE", "SMALL SERVICE HOLE", "LARGE SERVICE HOLE"}),
           !.dimples = Of({"DIMPLE"}),
           !.stubs = Of({"SERVICE", "CORNER BRACKETS"})]

\* the resync loop with the same -29.5 offset for every web tab
RECURSIVE SyncedBoltsSameOffset(_, _, _, _)
SyncedBoltsSameOffset(validBoltHoles, webTabPositions, index, profileLength) ==
    IF index >= Len(webTabPositions) THEN validBoltHoles
    ELSE LET boltHolePosition == webTabPositions[index + 1] - 295
         IN  SyncedBoltsSameOffset(
                 IF boltHolePosition > T(50) /\ boltHolePosition < profileLength - T(50)
                 THEN Append(validBoltHoles, Punch(roundHalf(boltHolePosition), "BOLT HOLE"))
                 ELSE validBoltHoles,
                 webTabPositions, index + 1, profileLength)

\* webTabPositions.forEach of syncBearerBoltHolesWithWebTabs
RECURSIVE SyncedBolts(_, _, _, _)
SyncedBolts(validBoltHoles, webTabPositions, index, profileLength) ==
    IF index >= Len(webTabPositions) THEN validBoltHoles
    ELSE LET offset == IF index % 2 = 0 THEN -295 ELSE 295
             boltHolePosition == webTabPositions[index + 1] + offset
         IN  SyncedBolts(IF boltHolePosition > T(50) /\ boltHolePosition < profileLength - T(50)
                         THEN Append(validBoltHoles,
                                     Punch(roundHalf(boltHolePosition), "BOLT HOLE"))
                         ELSE validBoltHoles,
                         webTabPositions, index + 1, profileLength)

syncBearerBoltHolesWithWebTabs(calc) ==
    LET activeTabs == SelectSeq(calc.webHoles, LAMBDA w : w.active)
        webTabPositions == SortNumbers([i \in 1..Len(activeTabs) |-> activeTabs[i].position])
        profileLength == calc.lengthMod + calc.endExclusion
        endBoltHoles == SelectSeq(calc.boltHoles, LAMBDA b :
                            b.position <= T(50) \/ b.position >= profileLength - T(50))
    IN  [calc EXCEPT !.boltHoles = SyncedBolts(endBoltHoles, webTabPositions, 0, profileLength)]

\* the calculations after setManualPunches(punches, profileType), punches
\* not null; profileType "" stands for an omitted argument
ManualCalculations(calc, punches, profileType) ==
    LET c == ManualPartition(calc, punches)
    IN  IF profileType # "" /\ profileType \in {"Bearer Single", "Bearer Box"}
        THEN syncBearerBoltHolesWithWebTabs(c)
        ELSE c

----------------------------------------------------------------------------
(* CSV encoder.  The line is the sequence of its comma-separated fields;   *)
(* a number field is the sequence of the characters JavaScript writes for  *)
(* it, a text field is a string.                                           *)

DigitChar == <<"0", "1", "2", "3", "4", "5", "6", "7", "8", "9">>

\* the decimal digits of a natural number
RECURSIVE DigitChars(_)
DigitChars(n) ==
    IF n < 10 THEN <<DigitChar[n + 1]>>
    ELSE Append(DigitChars(n \div 10), DigitChar[(n % 10) + 1])

\* `${x}` for a number x held in tenths: sign, integer digits, and the
\* fraction digit when there is one
NumberText(x) ==
    (IF x < 0 THEN <<"-">> ELSE <<>>)
    \o DigitChars(Abs(x) \div 10)
    \o (IF Abs(x) % 10 = 0 THEN <<>> ELSE <<".", DigitChar[(Abs(x) % 10) + 1]>>)

\* the program names of the inputs that start with the letter B
NamesStartingWithB == {"B_5200_J600_S1200"}

\* this.partCode.startsWith('B')
PartCodeStartsWithB(pc) ==
    IF pc.name # "" THEN pc.name \in NamesStartingWithB ELSE pc.prefix = "B"

\* generateCSV with the dimples pushed before the web tabs
generateCSVDimplesFirst(calc, pc, qty) ==
    LET profileType == IF PartCodeStartsWithB(pc) THEN "BEARER" ELSE "JOIST"
        componentCode == IF profileType = "BEARER" THEN "B1-1" ELSE "J1-1"
        length == IF calc.lengthMod + calc.endExclusion # 0
                  THEN calc.lengthMod + calc.endExclusion ELSE T(5200)
        Active(arr) == SelectSeq(arr, LAMBDA h : h.active)
        punches == SortByPosition(Active(calc.boltHoles) \o Active(calc.dimples)
                                  \o Active(calc.webHoles) \o Active(calc.serviceHoles)
                                  \o Active(calc.stubs))
        Field(k) == LET p == punches[(k + 1) \div 2]
                    IN  IF k % 2 = 1
                        THEN (IF p.type = "CORNER BRACKETS" THEN "SERVICE" ELSE p.type)
                        ELSE NumberText(roundHalf(p.position))
    IN  <<"csvCOMPONENT", componentCode, pc, profileType, "NORMAL", NumberText(T(qty)),
          NumberText(length), "0", "0", NumberText(length), "0", "50">>
        \o [k \in 1..(2 * Len(punches)) |-> Field(k)]

\* generateCSV that also writes the disabled punches
generateCSVAllPunches(calc, pc, qty) ==
    LET profileType == IF PartCodeStartsWithB(pc) THEN "BEARER" ELSE "JOIST"
        componentCode == IF profileType = "BEARER" THEN "B1-1" ELSE "J1-1"
        length == IF calc.lengthMod + calc.endExclusion # 0
                  THEN calc.lengthMod + calc.endExclusion ELSE T(5200)
        punches == SortByPosition(calc.boltHoles \o calc.webHoles \o calc.serviceHoles
                                  \o calc.dimples \o calc.stubs)
        Field(k) == LET p == punches[(k + 1) \div 2]
                    IN  IF k % 2 = 1
                        THEN (IF p.type = "CORNER BRACKETS" THEN "SERVICE" ELSE p.type)
                        ELSE NumberText(roundHalf(p.position))
    IN  <<"csvCOMPONENT", componentCode, pc, profileType, "NORMAL", NumberText(T(qty)),
          NumberText(length), "0", "0", NumberText(length), "0", "50">>
        \o [k \in 1..(2 * Len(punches)) |-> Field(k)]

\* generateCSV without the 5200 fallback of the length
generateCSVNoFallback(calc, pc, qty) ==
    LET profileType == IF PartCodeStartsWithB(pc) THEN "BEARER" ELSE "JOIST"
        componentCode == IF profileType = "BEARER" THEN "B1-1" ELSE "J1-1"
        length == calc.lengthMod + calc.endExclusion
        Active(arr) == SelectSeq(arr, LAMBDA h : h.active)
        punches == SortByPosition(Active(calc.boltHoles) \o Active(calc.webHoles)
                                  \o Active(calc.serviceHoles) \o Active(calc.dimples)
                                  \o Active(calc.stubs))
        Field(k) == LET p == punches[(k + 1) \div 2]
                    IN  IF k % 2 = 1
                        THEN (IF p.type = "CORNER BRACKETS" THEN "SERVICE" ELSE p.type)
                        ELSE NumberText(roundHalf(p.position))
    IN  <<"csvCOMPONENT", componentCode, pc, profileType, "NORMAL", NumberText(T(qty)),
          NumberText(length), "0", "0", NumberText(length), "0", "50">>
        \o [k \in 1..(2 * Len(punches)) |-> Field(k)]

\* generateCSV(): the header fields, then station and position of every
\* active punch, the punches pushed list by list and sorted by position
generateCSV(calc, pc, qty) ==
    LET profileType == IF PartCodeStartsWithB(pc) THEN "BEARER" ELSE "JOIST"
        componentCode == IF profileType = "BEARER" THEN "B1-1" ELSE "J1-1"
        length == IF calc.lengthMod + calc.endExclusion # 0
                  THEN calc.lengthMod + calc.endExclusion ELSE T(5200)
        Active(arr) == SelectSeq(arr, LAMBDA h : h.active)
        punches == SortByPosition(Active(calc.boltHoles) \o Active(calc.webHoles)
                                  \o Active(calc.serviceHoles) \o Active(calc.dimples)
                                  \o Active(calc.stubs))
        Field(k) == LET p == punches[(k + 1) \div 2]
                    IN  IF k % 2 = 1
                        THEN (IF p.type = "CORNER BRACKETS" THEN "SERVICE" ELSE p.type)
                        ELSE NumberText(roundHalf(p.position))
    IN  <<"csvCOMPONENT", componentCode, pc, profileType, "NORMAL", NumberText(T(qty)),
          NumberText(length), "0", "0", NumberText(length), "0", "50">>
        \o [k \in 1..(2 * Len(punches)) |-> Field(k)]

----------------------------------------------------------------------------
(* Stub positions of the profile form.  Lengths are whole millimetres.     *)

FIRST_STUB_POSITION == 331

\* calculateStubPositions(length, spacing): the first stub, one every
\* spacing while below the last stub, and the last stub
calculateStubPositions(length, spacing) ==
    LET firstStub == FIRST_STUB_POSITION
        lastStub == length - FIRST_STUB_POSITION
        availableLength == lastStub - firstStub
        \* passes of the loop: the least integer not below availableLength / spacing, less one
        steps == -((-availableLength) \div spacing) - 1
        positions == [k \in 1..(steps + 1) |-> firstStub + (k - 1) * spacing]
    IN  IF length <= 662 THEN <<>>
        ELSE IF availableLength <= 0 THEN <<firstStub>>
        ELSE IF positions[Len(positions)] # lastStub THEN Append(positions, lastStub)
        ELSE positions

----------------------------------------------------------------------------
(* Span table advisor.  Lengths are whole millimetres.                     *)

\* MANUFACTURING_CONSTANTS.SPAN_LIMITS
SPAN_LIMITS == [kpa \in {"2.5", "5.0"} |-> IF kpa = "2.5" THEN 11750 ELSE 9300]

Recommendation(profileType, joistSpacing, exceedsLimit) ==
    [profileType |-> profileType, joistSpacing |-> joistSpacing, exceedsLimit |-> exceedsLimit]

\* the 2.5 kPa arms with the Box 600 arm tested before the Single 300 arm
getSpanTableRecommendationBoxFirst(length, kpaRating) ==
    IF kpaRating = "2.5"
    THEN
        IF length <= 6800 THEN Recommendation("Joist Single", 600, FALSE) ELSE
        IF length <= 7600 THEN Recommendation("Joist Single", 500, FALSE) ELSE
        IF length <= 8600 THEN Recommendation("Joist Single", 400, FALSE) ELSE
        IF length <= 9100 THEN Recommendation("Joist Box", 600, FALSE) ELSE
        IF length <= 9550 THEN Recommendation("Joist Single", 300, FALSE) ELSE
        IF length <= 9750 THEN Recommendation("Joist Box", 500, FALSE) ELSE
        IF length <= 10600 THEN Recommendation("Joist Box", 400, FALSE) ELSE
        IF length <= 11750 THEN Recommendation("Joist Box", 300, FALSE) ELSE
        Recommendation("Joist Box", 300, TRUE)
    ELSE
        IF length <= 4500 THEN Recommendation("Joist Single", 600, FALSE) ELSE
        IF length <= 5100 THEN Recommendation("Joist Single", 500, FALSE) ELSE
        IF length <= 5850 THEN Recommendation("Joist Single", 400, FALSE) ELSE
        IF length <= 7000 THEN Recommendation("Joist Single", 300, FALSE) ELSE
        IF length <= 7700 THEN Recommendation("Joist Box", 500, FALSE) ELSE
        IF length <= 8350 THEN Recommendation("Joist Box", 400, FALSE) ELSE
        IF length <= 9300 THEN Recommendation("Joist Box", 300, FALSE) ELSE
        Recommendation("Joist Box", 300, TRUE)

\* the 2.5 kPa arms with the spacings of the second and third arm exchanged
getSpanTableRecommendationSwapped(length, kpaRating) ==
    IF kpaRating = "2.5"
    THEN
        IF length <= 6800 THEN Recommendation("Joist Single", 600, FALSE) ELSE
        IF length <= 7600 THEN Recommendation("Joist Single", 400, FALSE) ELSE
        IF length <= 8600 THEN Recommendation("Joist Single", 500, FALSE) ELSE
        IF length <= 9550 THEN Recommendation("Joist Single", 300, FALSE) ELSE
        IF length <= 9100 THEN Recommendation("Joist Box", 600, FALSE) ELSE
        IF length <= 9750 THEN Recommendation("Joist Box", 500, FALSE) ELSE
        IF length <= 10600 THEN Recommendation("Joist Box", 400, FALSE) ELSE
        IF length <= 11750 THEN Recommendation("Joist Box", 300, FALSE) ELSE
        Recommendation("Joist Box", 300, TRUE)
    ELSE
        IF length <= 4500 THEN Recommendation("Joist Single", 600, FALSE) ELSE
        IF length <= 5100 THEN Recommendation("Joist Single", 500, FALSE) ELSE
        IF length <= 5850 THEN Recommendation("Joist Single", 400, FALSE) ELSE
        IF length <= 7000 THEN Recommendation("Joist Single", 300, FALSE) ELSE
        IF length <= 7700 THEN Recommendation("Joist Box", 500, FALSE) ELSE
        IF length <= 8350 THEN Recommendation("Joist Box", 400, FALSE) ELSE
        IF length <= 9300 THEN Recommendation("Joist Box", 300, FALSE) ELSE
        Recommendation("Joist Box", 300, TRUE)

\* getSpanTableRecommendation of lib/utils/manufacturing
getSpanTableRecommendation(length, kpaRating) ==
    IF kpaRating = "2.5"
    THEN
        IF length <= 6800 THEN Recommendation("Joist Single", 600, FALSE) ELSE
        IF length <= 7600 THEN Recommendation("Joist Single", 500, FALSE) ELSE
        IF length <= 8600 THEN Recommendation("Joist Single", 400, FALSE) ELSE
        IF length <= 9550 THEN Recommendation("Joist Single", 300, FALSE) ELSE
        IF length <= 9100 THEN Recommendation("Joist Box", 600, FALSE) ELSE
        IF length <= 9750 THEN Recommendation("Joist Box", 500, FALSE) ELSE
        IF length <= 10600 THEN Recommendation("Joist Box", 400, FALSE) ELSE
        IF length <= 11750 THEN Recommendation("Joist Box", 300, FALSE) ELSE
        Recommendation("Joist Box", 300, TRUE)
    ELSE
        IF length <= 4500 THEN Recommendation("Joist Single", 600, FALSE) ELSE
        IF length <= 5100 THEN Recommendation("Joist Single", 500, FALSE) ELSE
        IF length <= 5850 THEN Recommendation("Joist Single", 400, FALSE) ELSE
        IF length <= 7000 THEN Recommendation("Joist Single", 300, FALSE) ELSE
        IF length <= 7700 THEN Recommendation("Joist Box", 500, FALSE) ELSE
        IF length <= 8350 THEN Recommendation("Joist Box", 400, FALSE) ELSE
        IF length <= 9300 THEN Recommendation("Joist Box", 300, FALSE) ELSE
        Recommendation("Joist Box", 300, TRUE)

\* the copy of getSpanTableRecommendation kept by the profile form
formGetSpanTableRecommendation(length, kpaRating) ==
    IF kpaRating = "2.5"
    THEN
        IF length <= 6800 THEN Recommendation("Joist Single", 600, FALSE) ELSE
        IF length <= 7600 THEN Recommendation("Joist Single", 500, FALSE) ELSE
        IF length <= 8600 THEN Recommendation("Joist Single", 400, FALSE) ELSE
        IF length <= 9550 THEN Recommendation("Joist Single", 300, FALSE) ELSE
        IF length <= 9100 THEN Recommendation("Joist Box", 600, FALSE) ELSE
        IF length <= 9750 THEN Recommendation("Joist Box", 500, FALSE) ELSE
        IF length <= 10600 THEN Recommendation("Joist Box", 400, FALSE) ELSE
        IF length <= 11750 THEN Recommendation("Joist Box", 300, FALSE) ELSE
        Recommendation("Joist Box", 300, TRUE)
    ELSE
        IF length <= 4500 THEN Recommendation("Joist Single", 600, FALSE) ELSE
        IF length <= 5100 THEN Recommendation("Joist Single", 500, FALSE) ELSE
        IF length <= 5850 THEN Recommendation("Joist Single", 400, FALSE) ELSE
        IF length <= 7000 THEN Recommendation("Joist Single", 300, FALSE) ELSE
        IF length <= 7700 THEN Recommendation("Joist Box", 500, FALSE) ELSE
        IF length <= 8350 THEN Recommendation("Joist Box", 400, FALSE) ELSE
        IF length <= 9300 THEN Recommendation("Joist Box", 300, FALSE) ELSE
        Recommendation("Joist Box", 300, TRUE)

----------------------------------------------------------------------------
(* Clash detector.  An issue keeps the type, the position (<<>> for null)  *)
(* and the severity of a ClashIssue.                                       *)

SERVICE_CLEARANCE == 250
MIN_SPACING_TOLERANCE == 100
WEB_TAB_CLEARANCE == T(22) + 5
DIMPLE_SPACING_JOIST == T(409) + 5
DIMPLE_START_JOIST == T(509) + 5
\* the double of the literal 0.15
SPACING_TOLERANCE_PERCENT == NumDivI(Num(FALSE, <<15, 0, 0, 0, 0>>), 100)

\* Math.abs(a - b) of two positions, each the double of its decimal; the
\* difference of two multiples of 0.5 is a double and is returned unrounded
Distance(a, b) == IF a % 5 = 0 /\ b % 5 = 0 THEN NumTenths(Abs(a - b))
                  ELSE NumAbs(NumSub(NumTenths(a), NumTenths(b)))

Issue(type, position, severity) == [type |-> type, position |-> position, severity |-> severity]

RECURSIVE Flatten(_)
Flatten(ss) == IF ss = <<>> THEN <<>> ELSE Head(ss) \o Flatten(Tail(ss))

\* getVisualDimensions(station).width in tenths: the diameter of a round
\* punch, the width of any other, 10 for an unknown station
VisualWidth(station) ==
    IF station = "BOLT HOLE" THEN T(11)
    ELSE IF station = "DIMPLE" THEN T(5)
    ELSE IF station = "WEB TAB" THEN T(45)
    ELSE IF station = "SERVICE" THEN T(115)
    ELSE IF station = "SMALL SERVICE HOLE" THEN T(110)
    ELSE IF station = "M SERVICE HOLE" THEN T(200)
    ELSE IF station = "LARGE SERVICE HOLE" THEN T(200)
    ELSE IF station = "CORNER BRACKETS" THEN T(115)
    ELSE T(10)

getClearanceDistance(punchType) == VisualWidth(punchType) \div 2

\* 1a without the end bolt exemption
EdgeClearanceBoltsNoExemption(calc, profileLength) ==
    Flatten([i \in 1..Len(calc.boltHoles) |->
        LET bolt == calc.boltHoles[i]
        IN  IF ~bolt.active THEN <<>>
            ELSE (IF bolt.position < T(MIN_CLEARANCE)
                  THEN <<Issue("clearance", <<bolt.position>>, "error")>> ELSE <<>>)
                 \o (IF bolt.position > profileLength - T(MIN_CLEARANCE)
                     THEN <<Issue("clearance", <<bolt.position>>, "error")>> ELSE <<>>)])

\* 1a: bolt holes within MIN_CLEARANCE of an end, end bolts skipped
EdgeClearanceBolts(calc, profileLength) ==
    Flatten([i \in 1..Len(calc.boltHoles) |->
        LET bolt == calc.boltHoles[i]
            isEndBolt == bolt.position <= T(35) \/ bolt.position >= profileLength - T(35)
        IN  IF ~bolt.active \/ isEndBolt THEN <<>>
            ELSE (IF bolt.position < T(MIN_CLEARANCE)
                  THEN <<Issue("clearance", <<bolt.position>>, "error")>> ELSE <<>>)
                 \o (IF bolt.position > profileLength - T(MIN_CLEARANCE)
                     THEN <<Issue("clearance", <<bolt.position>>, "error")>> ELSE <<>>)])

\* 1b: web tabs within half their width of an end
EdgeClearanceWebTabs(calc, profileLength) ==
    Flatten([i \in 1..Len(calc.webHoles) |->
        LET webTab == calc.webHoles[i]
        IN  IF ~webTab.active THEN <<>>
            ELSE (IF webTab.position < WEB_TAB_CLEARANCE
                  THEN <<Issue("clearance", <<webTab.position>>, "error")>> ELSE <<>>)
                 \o (IF webTab.position > profileLength - WEB_TAB_CLEARANCE
                     THEN <<Issue("clearance", <<webTab.position>>, "error")>> ELSE <<>>)])

\* 1c: service holes within their radius of an end
EdgeClearanceServiceHoles(calc, profileLength) ==
    Flatten([i \in 1..Len(calc.serviceHoles) |->
        LET service == calc.serviceHoles[i]
            serviceRadius == getClearanceDistance(service.type)
        IN  IF ~service.active THEN <<>>
            ELSE (IF service.position < serviceRadius
                  THEN <<Issue("clearance", <<service.position>>, "error")>> ELSE <<>>)
                 \o (IF service.position > profileLength - serviceRadius
                     THEN <<Issue("clearance", <<service.position>>, "error")>> ELSE <<>>)])

\* 2: the centre distance a web tab must keep from a service hole
WebTabServiceDistance(serviceType) ==
    IF serviceType = "M SERVICE HOLE" THEN T(145)
    ELSE IF serviceType = "LARGE SERVICE HOLE" THEN T(245)
    ELSE IF serviceType = "SMALL SERVICE HOLE" THEN T(102) + 5
    ELSE T(22) + 5 + getClearanceDistance(serviceType) + T(22) + 5

\* 2: web tab against every service hole
WebTabServiceClearance(calc) ==
    Flatten([i \in 1..Len(calc.webHoles) |->
        IF ~calc.webHoles[i].active THEN <<>>
        ELSE Flatten([j \in 1..Len(calc.serviceHoles) |->
                LET service == calc.serviceHoles[j]
                    distance == Distance(service.position, calc.webHoles[i].position)
                IN  IF service.active
                       /\ NumLt(distance, NumTenths(WebTabServiceDistance(service.type)))
                    THEN <<Issue("clearance", <<calc.webHoles[i].position>>, "warning")>>
                    ELSE <<>>])])

\* 2b: stub against every service hole
StubServiceClearance(calc) ==
    Flatten([i \in 1..Len(calc.stubs) |->
        IF ~calc.stubs[i].active THEN <<>>
        ELSE Flatten([j \in 1..Len(calc.serviceHoles) |->
                LET service == calc.serviceHoles[j]
                    distance == Distance(calc.stubs[i].position, service.position)
                IN  IF service.active /\ NumLt(distance, NumTenths(T(SERVICE_CLEARANCE)))
                    THEN <<Issue("clearance", <<calc.stubs[i].position>>, "warning")>>
                    ELSE <<>>])])

\* 3 and 5: a bearer web tab without its bolt at the alternating offset
BearerAlignment(calc, profileLength) ==
    LET sortedWebTabs == SortByPosition(SelectSeq(calc.webHoles, LAMBDA w : w.active))
        nonEndBolts == SelectSeq(calc.boltHoles, LAMBDA b :
                           /\ b.active
                           /\ b.position > T(MIN_CLEARANCE)
                           /\ b.position < profileLength - T(MIN_CLEARANCE))
    IN  Flatten([k \in 1..Len(sortedWebTabs) |->
            LET expectedOffset == IF (k - 1) % 2 = 0 THEN -295 ELSE 295
                expectedBoltPosition == roundHalf(sortedWebTabs[k].position + expectedOffset)
                correspondingBolt ==
                    \E b \in 1..Len(nonEndBolts) :
                       NumLt(Distance(nonEndBolts[b].position, expectedBoltPosition),
                             NumTenths(T(POSITION_TOLERANCE)))
            IN  IF ~correspondingBolt
                THEN <<Issue("alignment", <<sortedWebTabs[k].position>>, "warning")>>
                ELSE <<>>])

\* 4: dimple against every bolt hole (radius 2.5, half width 5.5, gap 5)
FlangeConflicts(calc) ==
    Flatten([i \in 1..Len(calc.dimples) |->
        IF ~calc.dimples[i].active THEN <<>>
        ELSE Flatten([j \in 1..Len(calc.boltHoles) |->
                LET bolt == calc.boltHoles[j]
                    distance == Distance(calc.dimples[i].position, bolt.position)
                    requiredDistance == 25 + 55 + T(5)
                IN  IF bolt.active /\ NumLt(distance, NumTenths(requiredDistance))
                    THEN <<Issue("clearance", <<calc.dimples[i].position>>, "warning")>>
                    ELSE <<>>])])

\* 6a: dimples off the expected grid
DimpleSpacing(calc, isBearer) ==
    LET active == SelectSeq(calc.dimples, LAMBDA d : d.active)
        dimplePositions == SortNumbers([i \in 1..Len(active) |-> active[i].position])
        expectedDimpleSpacing == IF isBearer THEN T(DIMPLE_SPACING_BEARER)
                                 ELSE DIMPLE_SPACING_JOIST
        dimpleStart == IF isBearer THEN DIMPLE_START_BEARER ELSE DIMPLE_START_JOIST
    IN  Flatten([k \in 1..Len(dimplePositions) |->
            LET expectedPos == dimpleStart + (k - 1) * expectedDimpleSpacing
            IN  IF NumLt(NumTenths(T(1)), Distance(dimplePositions[k], expectedPos))
                THEN <<Issue("position-conflict", <<dimplePositions[k]>>, "warning")>>
                ELSE <<>>])

\* 6: span table violations with warnings for joists too
SpanLimitsAllWarnings(profileData, isBearer, isJoist) ==
    (IF profileData.kpaRating # "" /\ isJoist
        /\ profileData.length > SPAN_LIMITS[profileData.kpaRating]
     THEN <<Issue("span-limit", <<>>, "warning")>> ELSE <<>>)
    \o (IF profileData.kpaRating # "" /\ isBearer /\ profileData.joistLength # 0
           /\ profileData.joistLength > SPAN_LIMITS[profileData.kpaRating]
        THEN <<Issue("span-limit", <<>>, "warning")>> ELSE <<>>)

\* 6: span table violations read from the profile length for bearers too
SpanLimitsByLength(profileData, isBearer, isJoist) ==
    (IF profileData.kpaRating # "" /\ isJoist
        /\ profileData.length > SPAN_LIMITS[profileData.kpaRating]
     THEN <<Issue("span-limit", <<>>, "error")>> ELSE <<>>)
    \o (IF profileData.kpaRating # "" /\ isBearer
           /\ profileData.length > SPAN_LIMITS[profileData.kpaRating]
        THEN <<Issue("span-limit", <<>>, "warning")>> ELSE <<>>)

\* 6: span table violations, the profile length of a joist and the joist
\* length of a bearer
SpanLimits(profileData, isBearer, isJoist) ==
    (IF profileData.kpaRating # "" /\ isJoist
        /\ profileData.length > SPAN_LIMITS[profileData.kpaRating]
     THEN <<Issue("span-limit", <<>>, "error")>> ELSE <<>>)
    \o (IF profileData.kpaRating # "" /\ isBearer /\ profileData.joistLength # 0
           /\ profileData.joistLength > SPAN_LIMITS[profileData.kpaRating]
        THEN <<Issue("span-limit", <<>>, "warning")>> ELSE <<>>)

\* 7: web tab spacing against the configured joist spacing
WebTabSpacing(calc, profileData) ==
    LET active == SelectSeq(calc.webHoles, LAMBDA w : w.active)
        webTabPositions == SortNumbers([i \in 1..Len(active) |-> active[i].position])
        expectedWebTabSpacing == NumTenths(T(profileData.joistSpacing))
        byPercent == NumMulI(SPACING_TOLERANCE_PERCENT, profileData.joistSpacing)
        tolerance == IF NumLt(byPercent, NumTenths(T(MIN_SPACING_TOLERANCE)))
                     THEN NumTenths(T(MIN_SPACING_TOLERANCE)) ELSE byPercent
    IN  Flatten([i \in 1..(Len(webTabPositions) - 1) |->
            LET spacing == NumSub(NumTenths(webTabPositions[i + 1]),
                                  NumTenths(webTabPositions[i]))
                deviation == NumAbs(NumSub(spacing, expectedWebTabSpacing))
            IN  IF NumLt(tolerance, deviation)
                THEN <<Issue("clearance", <<webTabPositions[i]>>, "warning")>>
                ELSE <<>>])

\* 8: service hole spacing, skipped in screens mode
ServiceHoleSpacing(calc, profileData, profileLength) ==
    LET active == SelectSeq(calc.serviceHoles, LAMBDA h : h.active)
        servicePositions == SortNumbers([i \in 1..Len(active) |-> active[i].position])
        nonCornerServicePositions ==
            SelectSeq(servicePositions, LAMBDA pos : pos > T(150) /\ pos < profileLength - T(150))
    IN  IF ~profileData.screensEnabled /\ Len(servicePositions) > 1
           /\ Len(nonCornerServicePositions) > 1
        THEN Flatten([i \in 1..(Len(nonCornerServicePositions) - 1) |->
                LET spacing == NumSub(NumTenths(nonCornerServicePositions[i + 1]),
                                      NumTenths(nonCornerServicePositions[i]))
                IN  IF NumLt(NumTenths(T(MIN_SPACING_TOLERANCE)),
                             NumAbs(NumSub(spacing, NumTenths(T(SERVICE_HOLE_SPACING)))))
                    THEN <<Issue("position-conflict", <<nonCornerServicePositions[i]>>,
                                 "warning")>>
                    ELSE <<>>])
        ELSE <<>>

\* 9: overlap of the punches of the web face
FacePunchOverlap(calc) ==
    LET facePunches == calc.webHoles \o calc.serviceHoles \o calc.stubs
    IN  Flatten([i \in 1..Len(facePunches) |->
            IF ~facePunches[i].active THEN <<>>
            ELSE Flatten([k \in 1..(Len(facePunches) - i) |->
                    LET punch2 == facePunches[i + k]
                        distance == Distance(facePunches[i].position, punch2.position)
                        requiredDistance == getClearanceDistance(facePunches[i].type)
                                            + getClearanceDistance(punch2.type)
                                            + T(POSITION_TOLERANCE)
                    IN  IF punch2.active /\ NumLt(distance, NumTenths(requiredDistance))
                        THEN <<Issue("overlap", <<facePunches[i].position>>,
                                     IF NumLt(distance, NumTenths(T(5)))
                                     THEN "error" ELSE "warning")>>
                        ELSE <<>>])])

\* detectClashes(calculations, profileData): the issues in the order found
detectClashes(calc, profileData) ==
    LET profileLength == calc.lengthMod + calc.endExclusion
        isBearer == profileData.profileType \in {"Bearer Single", "Bearer Box"}
        isJoist == profileData.profileType \in {"Joist Single", "Joist Box"}
    IN  EdgeClearanceBolts(calc, profileLength)
        \o EdgeClearanceWebTabs(calc, profileLength)
        \o EdgeClearanceServiceHoles(calc, profileLength)
        \o WebTabServiceClearance(calc)
        \o StubServiceClearance(calc)
        \o (IF isBearer THEN BearerAlignment(calc, profileLength) ELSE <<>>)
        \o FlangeConflicts(calc)
        \o (IF isBearer THEN BearerAlignment(calc, profileLength) ELSE <<>>)
        \o DimpleSpacing(calc, isBearer)
        \o SpanLimits(profileData, isBearer, isJoist)
        \o WebTabSpacing(calc, profileData)
        \o ServiceHoleSpacing(calc, profileData, profileLength)
        \o FacePunchOverlap(calc)

\* the severity counts of a ClashDetectionResult
errorCount(issues) == Len(SelectSeq(issues, LAMBDA i : i.severity = "error"))
warningCount(issues) == Len(SelectSeq(issues, LAMBDA i : i.severity = "warning"))

----------------------------------------------------------------------------
(* Inputs *)

AllStations == {"BOLT HOLE", "DIMPLE", "WEB TAB", "M SERVICE HOLE", "SERVICE",
                "CORNER BRACKETS"}

\* the default profile of the host (scenario 1 of the specification)
Scenario1 ==
    [profileType |-> "Bearer Single", profileHeight |-> 350, length |-> 5200,
     joistLength |-> 6000, joistSpacing |-> 600, stubSpacing |-> 1200,
     stubPositions |-> <<T(331), T(1531), T(2731), T(3931), T(4869)>>,
     stubsEnabled |-> TRUE, holeType |-> "No Holes", holeSpacing |-> 650,
     punchStations |-> AllStations, endBoxJoist |-> FALSE, screensEnabled |-> FALSE,
     joistBox |-> FALSE, kpaRating |-> "2.5"]

JoistScenario ==
    [Scenario1 EXCEPT !.profileType = "Joist Single", !.length = 6000, !.holeType = "200mm",
                      !.stubPositions = <<>>, !.stubsEnabled = FALSE]

ValidProfiles ==
    { Scenario1,
      [Scenario1 EXCEPT !.joistBox = TRUE],
      [Scenario1 EXCEPT !.screensEnabled = TRUE],
      [Scenario1 EXCEPT !.screensEnabled = TRUE, !.joistBox = TRUE],
      [Scenario1 EXCEPT !.length = 3000, !.holeType = "115 Round", !.joistSpacing = 450,
                        !.punchStations = AllStations \ {"DIMPLE"}],
      JoistScenario,
      [JoistScenario EXCEPT !.screensEnabled = TRUE],
      [JoistScenario EXCEPT !.profileType = "Joist Box", !.length = 3000,
                            !.holeType = "No Holes"] }

\* profiles with a numeric field outside its documented range
InvalidProfiles ==
    { [Scenario1 EXCEPT !.length = 900],
      [JoistScenario EXCEPT !.joistSpacing = 300, !.holeSpacing = 1100] }

Profiles == ValidProfiles \cup InvalidProfiles

Exports == { [quantity |-> 2, programName |-> "B_5200_J600_S1200"],
             [quantity |-> 0, programName |-> ""] }

\* the documented ranges of the numeric fields of a ProfileSpec
InDocumentedRanges(profileData) ==
    /\ profileData.length >= 1000 /\ profileData.length <= 15000
    /\ profileData.profileHeight >= 200 /\ profileData.profileHeight <= 500
    /\ profileData.joistSpacing >= 400 /\ profileData.joistSpacing <= 1200
    /\ profileData.stubSpacing >= 600 /\ profileData.stubSpacing <= 2400
    /\ profileData.holeSpacing >= 400 /\ profileData.holeSpacing <= 1000

\* punches handed to setManualPunches
ManualUniverse ==
    { [position |-> T(1000), active |-> TRUE, type |-> "BOLT HOLE"],
      [position |-> T(600), active |-> TRUE, type |-> "WEB TAB"],
      [position |-> T(1200), active |-> FALSE, type |-> "WEB TAB"],
      [position |-> T(2600), active |-> FALSE, type |-> "M SERVICE HOLE"],
      [position |-> T(131), active |-> TRUE, type |-> "CORNER BRACKETS"] }

\* every list of at most MaxManual punches of the universe; a list may
\* hold the same punch more than once
ManualLists == UNION { [1..n -> ManualUniverse] : n \in 0..MaxManual }

ManualProfileTypes == {"", "Bearer Single", "Joist Single"}

NoProfile == [Scenario1 EXCEPT !.length = 0]

----------------------------------------------------------------------------
(* State machine *)

\* lastCall records the most recent call: its arguments, the mode and
\* version it found, the call before it, and the member length of the most
\* recent updateCalculations (0 before the first)
Call(op, profileData, punches, profileType) ==
    [op |-> op, profileData |-> profileData, punches |-> punches,
     profileType |-> profileType, wasManual |-> isManualMode, wasVersion |-> updateVersion,
     prevOp |-> lastCall.op, prevWasManual |-> lastCall.wasManual,
     memberLength |-> IF op = "update" THEN T(profileData.length)
                      ELSE lastCall.memberLength]

Init ==
    /\ calculations = initializeCalculations
    /\ partCode = [name |-> "", prefix |-> "", height |-> 0, length |-> 0]
    /\ quantity = 1
    /\ manualPunches = <<>>
    /\ isManualMode = FALSE
    /\ updateVersion = 0
    /\ lastCall = [op |-> "new", profileData |-> NoProfile, punches |-> <<>>,
                   profileType |-> "", wasManual |-> FALSE, wasVersion |-> 0,
                   prevOp |-> "new", prevWasManual |-> FALSE, memberLength |-> 0]

\* updateCalculations(_platformData, profileData, exportData)
UpdateCalculations(profileData, exportData) ==
    /\ isManualMode => updateVersion < MaxVersion
    /\ quantity' = IF exportData.quantity # 0 THEN exportData.quantity ELSE 1
    /\ partCode' = PartCodeOf(profileData, exportData)
    /\ calculations' = UpdatedCalculations(calculations, isManualMode, profileData)
    /\ updateVersion' = IF isManualMode THEN updateVersion + 1 ELSE updateVersion
    /\ UNCHANGED <<manualPunches, isManualMode>>
    /\ lastCall' = Call("update", profileData, <<>>, "")

\* setManualPunches(punches, profileType) with a list
SetManualPunches(punches, profileType) ==
    /\ updateVersion < MaxVersion
    /\ manualPunches' = <<punches>>
    /\ isManualMode' = TRUE
    /\ updateVersion' = updateVersion + 1
    /\ calculations' = ManualCalculations(calculations, punches, profileType)
    /\ UNCHANGED <<partCode, quantity>>
    /\ lastCall' = Call("setManual", NoProfile, punches, profileType)

\* setManualPunches(null)
SetManualPunchesNull ==
    /\ updateVersion < MaxVersion
    /\ manualPunches' = <<>>
    /\ isManualMode' = FALSE
    /\ updateVersion' = updateVersion + 1
    /\ UNCHANGED <<calculations, partCode, quantity>>
    /\ lastCall' = Call("setManualNull", NoProfile, <<>>, "")

\* clearManualMode() that forgets to leave Manual mode
ClearManualModeKeepsMode ==
    /\ updateVersion < MaxVersion
    /\ manualPunches' = <<>>
    /\ updateVersion' = updateVersion + 1
    /\ UNCHANGED <<calculations, partCode, quantity, isManualMode>>
    /\ lastCall' = Call("clear", NoProfile, <<>>, "")

\* clearManualMode() that also empties the five lists
ClearManualModeEmptiesLists ==
    /\ updateVersion < MaxVersion
    /\ manualPunches' = <<>>
    /\ isManualMode' = FALSE
    /\ updateVersion' = updateVersion + 1
    /\ calculations' = [calculations EXCEPT !.boltHoles = <<>>, !.webHoles = <<>>,
                           !.serviceHoles = <<>>, !.dimples = <<>>, !.stubs = <<>>]
    /\ UNCHANGED <<partCode, quantity>>
    /\ lastCall' = Call("clear", NoProfile, <<>>, "")

\* clearManualMode()
ClearManualMode ==
    /\ updateVersion < MaxVersion
    /\ manualPunches' = <<>>
    /\ isManualMode' = FALSE
    /\ updateVersion' = updateVersion + 1
    /\ UNCHANGED <<calculations, partCode, quantity>>
    /\ lastCall' = Call("clear", NoProfile, <<>>, "")

Next ==
    \/ \E profileData \in Profiles, exportData \in Exports :
          UpdateCalculations(profileData, exportData)
    \/ \E punches \in ManualLists, profileType \in ManualProfileTypes :
          SetManualPunches(punches, profileType)
    \/ SetManualPunchesNull
    \/ ClearManualMode

Spec == Init /\ [][Next]_vars

----------------------------------------------------------------------------
(* Bolt resync on a bearer, exercised on richer manual lists: the engine   *)
(* receives updateCalculations for a bearer and setManualPunches with      *)
(* lists whose bolts and web tabs lie at the ends, inside and off the      *)
(* half-millimetre grid.                                                   *)

MaxSync == 3
MaxSyncVersion == 2

SyncProfiles == { Scenario1, [Scenario1 EXCEPT !.length = 3000] }

SyncUniverse ==
    { [position |-> T(30), active |-> TRUE, type |-> "BOLT HOLE"],
      [position |-> T(50), active |-> FALSE, type |-> "BOLT HOLE"],
      [position |-> T(1000), active |-> TRUE, type |-> "BOLT HOLE"],
      [position |-> T(2950), active |-> TRUE, type |-> "BOLT HOLE"],
      [position |-> T(60), active |-> TRUE, type |-> "WEB TAB"],
      [position |-> T(79) + 7, active |-> TRUE, type |-> "WEB TAB"],
      [position |-> T(600), active |-> TRUE, type |-> "WEB TAB"],
      [position |-> T(1200), active |-> FALSE, type |-> "WEB TAB"],
      [position |-> T(2920), active |-> TRUE, type |-> "WEB TAB"] }

SyncLists == UNION { [1..n -> SyncUniverse] : n \in 0..MaxSync }

NextSync ==
    \/ \E profileData \in SyncProfiles :
          UpdateCalculations(profileData, [quantity |-> 2, programName |-> ""])
    \/ \E punches \in SyncLists, profileType \in {"Bearer Single", "Joist Single"} :
          updateVersion < MaxSyncVersion /\ SetManualPunches(punches, profileType)

SpecSync == Init /\ [][NextSync]_vars

----------------------------------------------------------------------------
(* The planner on its own: a newly constructed engine receives one         *)
(* updateCalculations with a profile drawn from the documented ranges.     *)

MaxPlanLength == 9000

PlanLengths == {1000, 1450, 3000, 5200, MaxPlanLength}
PlanSpacings == {400, 600, 1200}
PlanHoleTypes == {"No Holes", "50mm", "200mm", "200mm x 400mm", "115 Round"}
PlanStations == { AllStations, AllStations \ {"WEB TAB"}, {"DIMPLE", "SERVICE"} }

\* profileType, screensEnabled, joistBox: the six branches of
\* generateHolePositions
PlanBranches ==
    { <<"Bearer Single", FALSE, FALSE>>, <<"Bearer Single", FALSE, TRUE>>,
      <<"Bearer Box", TRUE, FALSE>>, <<"Bearer Single", TRUE, TRUE>>,
      <<"Joist Single", FALSE, FALSE>>, <<"Joist Box", FALSE, FALSE>>,
      <<"Joist Single", TRUE, FALSE>>, <<"Joist Box", TRUE, FALSE>> }

\* stub positions as the form supplies them: none, the computed ones, and
\* hand-typed ones (off the member, off the half-millimetre grid)
PlanStubPositions ==
    { <<>>,
      <<T(331), T(1531), T(2731)>>,
      <<T(0) - 50, T(331) + 3, T(700), T(20000)>> }

PlanProfiles ==
    { [Scenario1 EXCEPT !.profileType = b[1], !.screensEnabled = b[2], !.joistBox = b[3],
                        !.length = len, !.joistSpacing = js, !.holeType = ht,
                        !.stubPositions = sp, !.stubsEnabled = (sp # <<>>),
                        !.punchStations = st] :
        b \in PlanBranches, len \in PlanLengths, js \in PlanSpacings,
        ht \in PlanHoleTypes, sp \in PlanStubPositions, st \in PlanStations }

\* the single updateCalculations of a newly constructed engine
PlanUpdate(profileData) ==
    /\ lastCall.op = "new"
    /\ UpdateCalculations(profileData, [quantity |-> 2, programName |-> ""])

NextPlan == \E profileData \in PlanProfiles : PlanUpdate(profileData)

SpecPlan == Init /\ [][NextPlan]_vars

----------------------------------------------------------------------------
(* The CSV line of every engine state: updates, manual lists with shared   *)
(* positions, disabled punches and positions off the half-millimetre grid. *)

MaxCsv == 2

CsvProfiles ==
    { Scenario1, [Scenario1 EXCEPT !.joistBox = TRUE], JoistScenario,
      [Scenario1 EXCEPT !.length = 900] }

CsvUniverse ==
    { [position |-> T(600), active |-> TRUE, type |-> "BOLT HOLE"],
      [position |-> T(600), active |-> TRUE, type |-> "DIMPLE"],
      [position |-> T(600), active |-> TRUE, type |-> "WEB TAB"],
      [position |-> T(600), active |-> FALSE, type |-> "M SERVICE HOLE"],
      [position |-> T(131), active |-> TRUE, type |-> "CORNER BRACKETS"],
      [position |-> T(131) + 2, active |-> TRUE, type |-> "SERVICE"],
      [position |-> T(0) - 4, active |-> TRUE, type |-> "SMALL SERVICE HOLE"] }

CsvLists == UNION { [1..n -> CsvUniverse] : n \in 0..MaxCsv }

NextCsv ==
    \/ \E profileData \in CsvProfiles, exportData \in Exports :
          UpdateCalculations(profileData, exportData)
    \/ \E punches \in CsvLists, profileType \in {"", "Bearer Single"} :
          SetManualPunches(punches, profileType)
    \/ ClearManualMode

SpecCsv == Init /\ [][NextCsv]_vars

----------------------------------------------------------------------------
(* The advisor as the profile form calls it: one lookup per length and     *)
(* rating, by the library function and by the form's own copy.             *)

MaxAdviseStep == 60

\* the bounds of the arms, the length right above each, and a grid of
\* lengths from 1000 up
AdviseBounds ==
    {6800, 7600, 8600, 9550, 9100, 9750, 10600, 11750,
     4500, 5100, 5850, 7000, 7700, 8350, 9300}
AdviseLengths ==
    AdviseBounds \cup {b + 1 : b \in AdviseBounds} \cup {250 * k : k \in 4..MaxAdviseStep}

Advise(length, kpaRating) ==
    /\ lastCall' = [op |-> "advise", length |-> length, kpaRating |-> kpaRating,
                    result |-> getSpanTableRecommendation(length, kpaRating),
                    formResult |-> formGetSpanTableRecommendation(length, kpaRating)]
    /\ UNCHANGED <<calculations, partCode, quantity, manualPunches, isManualMode,
                   updateVersion>>

NextAdvise == \E length \in AdviseLengths, kpaRating \in {"2.5", "5.0"} : Advise(length, kpaRating)

SpecAdvise == Init /\ [][NextAdvise]_vars

----------------------------------------------------------------------------
(* A caller of the engine that runs the clash detector: it keeps the       *)
(* profile of its most recent updateCalculations, passes the profile type  *)
(* of that profile to setManualPunches, and hands the profile, with        *)
(* getCalculations(), to detectClashes.  lastCall keeps the call, the      *)
(* caller's profile and, after detectClashes, the result returned.         *)

MaxClashVersion == 2
MaxClashPunches == 2

BearerSpans ==
    { [Scenario1 EXCEPT !.joistLength = jl, !.kpaRating = kpa] :
         jl \in {0, 6000, 9300, 9301, 11750, 11751}, kpa \in {"", "2.5", "5.0"} }

JoistSpans ==
    { [JoistScenario EXCEPT !.screensEnabled = TRUE, !.length = len, !.kpaRating = kpa,
                            !.joistLength = 12000] :
         len \in {6000, 9300, 9301, 11750, 11751}, kpa \in {"", "2.5", "5.0"} }

ClashProfiles ==
    BearerSpans \cup JoistSpans
    \cup { JoistScenario,
           [JoistScenario EXCEPT !.profileType = "Joist Box", !.kpaRating = "5.0",
                                 !.length = 9000],
           [Scenario1 EXCEPT !.profileType = "Bearer Box", !.length = 12000,
                             !.joistSpacing = 1200, !.kpaRating = "5.0"],
           [Scenario1 EXCEPT !.profileType = "Bearer Box", !.joistLength = 9301,
                             !.kpaRating = "5.0"] }

\* punches handed to setManualPunches: positions before the start and
\* beyond the end of the member, off the half-millimetre grid, and a
\* disabled punch
ClashUniverse ==
    { [position |-> T(0) - 50, active |-> TRUE, type |-> "BOLT HOLE"],
      [position |-> T(20000), active |-> TRUE, type |-> "BOLT HOLE"],
      [position |-> T(0) - 50, active |-> TRUE, type |-> "DIMPLE"],
      [position |-> T(0) - 100, active |-> TRUE, type |-> "WEB TAB"],
      [position |-> T(0) - 100, active |-> FALSE, type |-> "WEB TAB"],
      [position |-> T(600), active |-> TRUE, type |-> "WEB TAB"],
      [position |-> T(20000), active |-> TRUE, type |-> "SMALL SERVICE HOLE"],
      [position |-> T(20000) + 3, active |-> TRUE, type |-> "SERVICE"],
      [position |-> T(131), active |-> TRUE, type |-> "CORNER BRACKETS"] }

ClashLists == UNION { [1..n -> ClashUniverse] : n \in 0..MaxClashPunches }

\* updateCalculations(null, profileData, exportData); the caller keeps
\* profileData
ClashUpdateCalculations(profileData) ==
    /\ isManualMode => updateVersion < MaxClashVersion
    /\ quantity' = 2
    /\ partCode' = PartCodeOf(profileData, [quantity |-> 2, programName |-> ""])
    /\ calculations' = UpdatedCalculations(calculations, isManualMode, profileData)
    /\ updateVersion' = IF isManualMode THEN updateVersion + 1 ELSE updateVersion
    /\ UNCHANGED <<manualPunches, isManualMode>>
    /\ lastCall' = [op |-> "update", profileData |-> profileData]

\* setManualPunches(punches, profileData.profileType) with a list, once the
\* caller holds a profile
ClashSetManualPunches(punches) ==
    /\ lastCall.op # "new"
    /\ updateVersion < MaxClashVersion
    /\ manualPunches' = <<punches>>
    /\ isManualMode' = TRUE
    /\ updateVersion' = updateVersion + 1
    /\ calculations' = ManualCalculations(calculations, punches,
                                          lastCall.profileData.profileType)
    /\ UNCHANGED <<partCode, quantity>>
    /\ lastCall' = [op |-> "setManual", profileData |-> lastCall.profileData]

\* clearManualMode()
ClashClearManualMode ==
    /\ lastCall.op # "new"
    /\ updateVersion < MaxClashVersion
    /\ manualPunches' = <<>>
    /\ isManualMode' = FALSE
    /\ updateVersion' = updateVersion + 1
    /\ UNCHANGED <<calculations, partCode, quantity>>
    /\ lastCall' = [op |-> "clear", profileData |-> lastCall.profileData]

\* detectClashes(getCalculations(), profileData): the engine is left as it
\* is and the caller receives the issues and the two counts
ClashDetectClashes ==
    /\ lastCall.op # "new"
    /\ LET issues == detectClashes(calculations, lastCall.profileData)
       IN  lastCall' = [op |-> "detect", profileData |-> lastCall.profileData,
                        issues |-> issues, errorCount |-> errorCount(issues),
                        warningCount |-> warningCount(issues)]
    /\ UNCHANGED <<calculations, partCode, quantity, manualPunches, isManualMode,
                   updateVersion>>

NextClash ==
    \/ \E profileData \in ClashProfiles : ClashUpdateCalculations(profileData)
    \/ \E punches \in ClashLists : ClashSetManualPunches(punches)
    \/ ClashClearManualMode
    \/ ClashDetectClashes

SpecClash == Init /\ [][NextClash]_vars

----------------------------------------------------------------------------
(* Members punched with end bolts only: profiles with the BOLT HOLE        *)
(* station alone, and the two end bolts handed to setManualPunches; next   *)
(* to them the fully punched scenarios of the specification.               *)

\* scenario 4 of the specification: scenario 1 with length 12000 at 5.0 kPa
Scenario4 == [Scenario1 EXCEPT !.length = 12000, !.kpaRating = "5.0"]

CanonProfiles ==
    { [Scenario1 EXCEPT !.profileType = pt, !.length = len, !.kpaRating = kpa,
                        !.screensEnabled = screens, !.punchStations = {"BOLT HOLE"}] :
         pt \in {"Bearer Single", "Bearer Box", "Joist Single", "Joist Box"},
         len \in {1000, 1450, 3000, 5200, 9000, 12000, 15000}, kpa \in {"", "2.5", "5.0"},
         screens \in BOOLEAN }
    \cup { Scenario1, JoistScenario, [Scenario1 EXCEPT !.joistLength = 11751] }
    \cup { [Scenario4 EXCEPT !.joistLength = jl] : jl \in {0, 6000, 9300, 9301, 12000} }

\* the two end bolts of a member, with and without a web tab between them
EndBoltLists(length) ==
    LET ends == << [position |-> T(30), active |-> TRUE, type |-> "BOLT HOLE"],
                   [position |-> T(length) - T(30), active |-> TRUE, type |-> "BOLT HOLE"] >>
    IN  { ends, Append(ends, [position |-> T(600), active |-> TRUE, type |-> "WEB TAB"]) }

NextCanon ==
    \/ \E profileData \in CanonProfiles : ClashUpdateCalculations(profileData)
    \/ \E punches \in EndBoltLists(lastCall.profileData.length) : ClashSetManualPunches(punches)
    \/ ClashClearManualMode
    \/ ClashDetectClashes

SpecCanon == Init /\ [][NextCanon]_vars

----------------------------------------------------------------------------
(* The planner under every combination of the mode flags and the punch     *)
(* station switches: a newly constructed engine receives one               *)
(* updateCalculations.                                                     *)

\* the stub positions the form fills in for a length, in tenths
FormStubPositions(length, spacing) ==
    [k \in 1..Len(calculateStubPositions(length, spacing)) |->
        T(calculateStubPositions(length, spacing)[k])]

FlagProfiles ==
    { [Scenario1 EXCEPT !.profileType = pt, !.screensEnabled = screens, !.joistBox = jb,
                        !.stubsEnabled = stubs, !.punchStations = st, !.length = len,
                        !.stubPositions = FormStubPositions(len, Scenario1.stubSpacing)] :
         pt \in {"Bearer Single", "Joist Single"}, screens \in BOOLEAN, jb \in BOOLEAN,
         stubs \in BOOLEAN, len \in {1000, 3000, 5200},
         st \in { AllStations, AllStations \ {"SERVICE"}, AllStations \ {"WEB TAB"},
                  AllStations \ {"DIMPLE"}, {"WEB TAB"}, {} } }

\* the single updateCalculations of a newly constructed engine
FlagUpdate(profileData) ==
    /\ lastCall.op = "new"
    /\ UpdateCalculations(profileData, [quantity |-> 2, programName |-> ""])

NextFlags == \E profileData \in FlagProfiles : FlagUpdate(profileData)

SpecFlags == Init /\ [][NextFlags]_vars

----------------------------------------------------------------------------
(* The joist planner over the member lengths and the hole spacings: a      *)
(* newly constructed engine receives one updateCalculations for a joist    *)
(* in normal mode with every station enabled.                              *)

JoistLengths == { len \in 1000..MaxPlanLength : len % 50 = 0 }

JoistProfiles ==
    { [JoistScenario EXCEPT !.length = len, !.holeSpacing = hs, !.holeType = ht] :
         len \in JoistLengths, hs \in {400, 450, 500, 650, 800, 1000},
         ht \in {"50mm", "200mm", "200mm x 400mm", "115 Round"} }

\* the single updateCalculations of a newly constructed engine
JoistUpdate(profileData) ==
    /\ lastCall.op = "new"
    /\ UpdateCalculations(profileData, [quantity |-> 2, programName |-> ""])

NextJoist == \E profileData \in JoistProfiles : JoistUpdate(profileData)

SpecJoist == Init /\ [][NextJoist]_vars

----------------------------------------------------------------------------
(* Large service holes near the ends of the member: setManualPunches       *)
(* receives one LARGE SERVICE HOLE at a position around the edge           *)
(* distances, and the caller runs the clash detector.                      *)

EdgeProfiles ==
    { Scenario1, JoistScenario, [Scenario1 EXCEPT !.length = 3000],
      [JoistScenario EXCEPT !.length = 1000, !.holeType = "200mm x 400mm"] }

\* distances from an end, in tenths
EdgeDistances == {T(0) - 100, 0, T(50), T(99) + 5, T(100), T(100) + 5, T(150),
                  T(199) + 5, T(200), T(200) + 5, T(400)}

EdgePositions(profileLength) ==
    EdgeDistances \cup { profileLength - d : d \in EdgeDistances }

\* one large service hole, active or not
EdgeLists(profileLength) ==
    { << [position |-> pos, active |-> act, type |-> "LARGE SERVICE HOLE"] >> :
         pos \in EdgePositions(profileLength), act \in BOOLEAN }

NextEdge ==
    \/ \E profileData \in EdgeProfiles : ClashUpdateCalculations(profileData)
    \/ \E punches \in EdgeLists(calculations.lengthMod + calculations.endExclusion) :
          ClashSetManualPunches(punches)
    \/ ClashDetectClashes

SpecEdge == Init /\ [][NextEdge]_vars

----------------------------------------------------------------------------
(* Planned bearers under the clash detector: a newly constructed engine    *)
(* receives one updateCalculations for a bearer without joist box, in      *)
(* normal or screens mode, and the caller runs the detector on the plan.   *)

PairProfiles ==
    { [Scenario1 EXCEPT !.profileType = pt, !.length = len, !.joistSpacing = js,
                        !.screensEnabled = screens, !.holeType = ht] :
         pt \in {"Bearer Single", "Bearer Box"}, len \in JoistLengths,
         js \in {400, 425, 600, 1200},
         screens \in BOOLEAN, ht \in {"No Holes", "200mm"} }

\* the first updateCalculations of a newly constructed engine
PairUpdateCalculations(profileData) ==
    /\ lastCall.op = "new"
    /\ ClashUpdateCalculations(profileData)

NextPair ==
    \/ \E profileData \in PairProfiles : PairUpdateCalculations(profileData)
    \/ ClashDetectClashes

SpecPair == Init /\ [][NextPair]_vars

----------------------------------------------------------------------------
(* Properties *)

AllPunches(c) == c.boltHoles \o c.webHoles \o c.serviceHoles \o c.dimples \o c.stubs
AllActive(c) == \A i \in 1..Len(AllPunches(c)) : AllPunches(c)[i].active
IsAscending(s) == \A i \in 1..(Len(s) - 1) : s[i].position <= s[i + 1].position
Count(s, x) == Cardinality({i \in 1..Len(s) : s[i] = x})
SameMembers(s, t) == /\ Len(s) = Len(t)
                     /\ \A i \in 1..Len(s) : Count(s, s[i]) = Count(t, s[i])
OfKinds(punches, kinds) == SelectSeq(punches, LAMBDA punch : punch.type \in kinds)

\* plan(spec): the layout a newly constructed engine holds after one
\* update_calculations(spec)
Plan(profileData) == UpdatedCalculations(initializeCalculations, FALSE, profileData)

\* bolt-resync as the specification words it: the end bolts of the input,
\* then one bolt per active web tab in ascending order, offset -29.5 for
\* even and +29.5 for odd rank, kept when strictly inside (50, length - 50)
ExpectedResync(bolts, webs, length) ==
    LET ends == SelectSeq(bolts, LAMBDA b : b.position <= 500 \/ b.position >= length - 500)
        act == SelectSeq(webs, LAMBDA w : w.active)
        n == Len(act)
        Rank(k) == Cardinality({j \in 1..n : \/ act[j].position < act[k].position
                                             \/ act[j].position = act[k].position /\ j < k})
        AtRank(r) == act[CHOOSE k \in 1..n : Rank(k) = r].position
        Target(r) == AtRank(r) + (IF r % 2 = 0 THEN -295 ELSE 295)
        kept == SelectSeq([r \in 1..n |-> r - 1],
                          LAMBDA r : Target(r) > 500 /\ Target(r) < length - 500)
    IN  ends \o [k \in 1..Len(kept) |->
                   [position |-> roundHalf(Target(kept[k])), active |-> TRUE,
                    type |-> "BOLT HOLE"]]

\* the number a text written by NumberText stands for, in tenths
DigitValue(c) == CHOOSE d \in 0..9 : DigitChar[d + 1] = c
RECURSIVE DigitsValue(_)
DigitsValue(digits) ==
    IF digits = <<>> THEN 0
    ELSE 10 * DigitsValue(SubSeq(digits, 1, Len(digits) - 1)) + DigitValue(digits[Len(digits)])
ParseNumber(text) ==
    LET negative == text # <<>> /\ text[1] = "-"
        body == IF negative THEN Tail(text) ELSE text
        dots == {i \in 1..Len(body) : body[i] = "."}
        dot == IF dots = {} THEN Len(body) + 1 ELSE CHOOSE i \in dots : TRUE
        whole == DigitsValue(SubSeq(body, 1, dot - 1))
        tenth == IF dot < Len(body) THEN DigitValue(body[dot + 1]) ELSE 0
    IN  (IF negative THEN -1 ELSE 1) * (10 * whole + tenth)

\* the (kind, position) pairs read back from a CSV line
ParseCSV(line) ==
    [k \in 1..((Len(line) - 12) \div 2) |->
        [kind |-> line[11 + 2 * k], position |-> ParseNumber(line[12 + 2 * k])]]

CsvLine == generateCSV(calculations, partCode, quantity)
ExportKind(type) == IF type = "CORNER BRACKETS" THEN "SERVICE" ELSE type
ActivePunches(c) == SelectSeq(AllPunches(c), LAMBDA punch : punch.active)
FlangeKinds == {"BOLT HOLE", "DIMPLE"}
\* the place of a kind's list in the order generateCSV reads the lists
ListRank(kind) ==
    IF kind = "BOLT HOLE" THEN 1
    ELSE IF kind = "WEB TAB" THEN 2
    ELSE IF kind \in {"M SERVICE HOLE", "SMALL SERVICE HOLE", "LARGE SERVICE HOLE"} THEN 3
    ELSE IF kind = "DIMPLE" THEN 4
    ELSE 5
\* two active punches of the layout share position pos and are written as
\* kinds k1 and k2
SharePosition(c, pos, k1, k2) ==
    \E i, j \in 1..Len(ActivePunches(c)) :
        /\ i # j
        /\ ActivePunches(c)[i].position = ActivePunches(c)[j].position
        /\ roundHalf(ActivePunches(c)[i].position) = pos
        /\ ExportKind(ActivePunches(c)[i].type) = k1
        /\ ExportKind(ActivePunches(c)[j].type) = k2

\* C1: every mutating call (update_calculations, set_manual_punches,
\* clear_manual_mode) leaves update_version strictly greater than it found it
C1_VersionStrictlyIncreases ==
    lastCall.op \in {"update", "setManual", "setManualNull", "clear"}
        => updateVersion > lastCall.wasVersion

\* C2: update_calculations(spec) in Manual mode replans and leaves the
\* engine in Computed mode with the layout plan(spec)
C2_ManualUpdateReplans ==
    (lastCall.op = "update" /\ lastCall.wasManual)
        => (~isManualMode /\ calculations = Plan(lastCall.profileData))

\* C3: clear_manual_mode() followed by update_calculations(spec) leaves the
\* engine in Computed mode with the layout plan(spec), whatever came before
C3_ClearThenUpdatePlans ==
    (lastCall.op = "update" /\ lastCall.prevOp = "clear")
        => (~isManualMode /\ calculations = Plan(lastCall.profileData))

C3_Witness ==
    /\ lastCall.op = "update" /\ lastCall.prevOp = "clear" /\ lastCall.prevWasManual
    /\ Len(calculations.boltHoles) > 0

\* C4 as claimed: in Computed mode every punch of the five lists is active
C4_ComputedAllActive == ~isManualMode => AllActive(calculations)

\* C4 amended: in Computed mode every punch is active unless the engine left
\* Manual mode (clear_manual_mode or set_manual_punches(null)) and no
\* update_calculations has followed yet
C4_PlannedAllActive ==
    (~isManualMode /\ lastCall.op \notin {"clear", "setManualNull"})
        => AllActive(calculations)

C4_Witness ==
    /\ ~isManualMode /\ lastCall.op = "update" /\ updateVersion > 0
    /\ Len(calculations.dimples) > 0 /\ Len(calculations.webHoles) > 0

\* C5: after set_manual_punches(L, variant) the engine is in
\* Manual mode and each non-bolt list holds exactly the punches of L of its
\* kind in ascending order of position; the bolts are those of L on a joist
\* and their resync on a bearer
C5_ManualListsSorted ==
    lastCall.op = "setManual"
        => /\ isManualMode
           /\ \A pair \in { <<calculations.webHoles, {"WEB TAB"}>>,
                            <<calculations.serviceHoles, ServiceHoleStations>>,
                            <<calculations.dimples, {"DIMPLE"}>>,
                            <<calculations.stubs, {"SERVICE", "CORNER BRACKETS"}>> } :
                 /\ SameMembers(pair[1], OfKinds(lastCall.punches, pair[2]))
                 /\ IsAscending(pair[1])
           /\ calculations.boltHoles =
                 IF isBearerProfile(lastCall.profileType)
                 THEN ExpectedResync(OfKinds(lastCall.punches, {"BOLT HOLE"}),
                                     OfKinds(lastCall.punches, {"WEB TAB"}),
                                     lastCall.memberLength)
                 ELSE OfKinds(lastCall.punches, {"BOLT HOLE"})

\* C6: bolt-resync on a bearer leaves the end bolts of the input (position
\* <= 50 or >= length - 50) followed by one bolt per active web tab, in
\* ascending order, at round_half(w - 29.5) for even and round_half(w + 29.5)
\* for odd rank, when w + offset is strictly inside (50, length - 50)
C6_ResyncBoltList ==
    (lastCall.op = "setManual" /\ isBearerProfile(lastCall.profileType))
        => calculations.boltHoles =
              ExpectedResync(OfKinds(lastCall.punches, {"BOLT HOLE"}),
                             OfKinds(lastCall.punches, {"WEB TAB"}),
                             lastCall.memberLength)

C6_Witness ==
    /\ lastCall.op = "setManual" /\ isBearerProfile(lastCall.profileType)
    /\ \E i \in 1..Len(lastCall.punches) :
          lastCall.punches[i] = [position |-> T(1000), active |-> TRUE, type |-> "BOLT HOLE"]
    /\ Len(calculations.boltHoles) = 2
    /\ calculations.boltHoles[1].position = T(600) - 295
    /\ calculations.boltHoles[2].position = T(2920) + 295

\* C7: applying bolt-resync to the layout set_manual_punches left on a
\* bearer, which is already resynced, leaves the bolt list as it is
C7_ResyncIdempotent ==
    (lastCall.op = "setManual" /\ isBearerProfile(lastCall.profileType))
        => syncBearerBoltHolesWithWebTabs(calculations).boltHoles = calculations.boltHoles

\* C8: clear_manual_mode() leaves the five lists and the derived scalars as
\* they are and leaves the engine in Computed mode
C8_ClearKeepsLayout ==
    [][lastCall'.op = "clear"
          => (calculations' = calculations /\ ~isManualMode')]_vars

C8_Witness ==
    /\ lastCall.op = "clear" /\ lastCall.wasManual /\ ~isManualMode
    /\ ~AllActive(calculations)

\* C9: whatever calls came before, update_calculations(spec) in Computed
\* mode with a valid spec leaves exactly the layout a new engine computes
\* for spec, so any two engines given the same spec hold identical layouts
C9_HistoryIndependent ==
    (lastCall.op = "update" /\ ~lastCall.wasManual /\ InDocumentedRanges(lastCall.profileData))
        => calculations = Plan(lastCall.profileData)

C9_Witness ==
    /\ lastCall.op = "update" /\ ~lastCall.wasManual
    /\ InDocumentedRanges(lastCall.profileData)
    /\ lastCall.prevOp = "setManualNull" /\ lastCall.prevWasManual
    /\ Len(calculations.serviceHoles) > 0

\* C10: update_calculations with a numeric field outside its documented
\* range changes nothing: layout, part code, quantity, mode and version stay
C10_InvalidSpecChangesNothing ==
    [][(lastCall'.op = "update" /\ ~InDocumentedRanges(lastCall'.profileData))
          => UNCHANGED <<calculations, partCode, quantity, isManualMode, updateVersion>>]_vars

\* C11: after an update in Computed mode each of the five lists
\* is in ascending order of position
C11_AllListsSorted ==
    (lastCall.op = "update" /\ ~isManualMode)
        => /\ IsAscending(calculations.boltHoles)
           /\ IsAscending(calculations.dimples)
           /\ IsAscending(calculations.webHoles)
           /\ IsAscending(calculations.serviceHoles)
           /\ IsAscending(calculations.stubs)

\* C12: after an update in Computed mode with a profile in the documented
\* ranges every position of every list lies in [0, length]
C12_PositionsWithinMember ==
    (lastCall.op = "update" /\ ~isManualMode /\ InDocumentedRanges(lastCall.profileData))
        => \A i \in 1..Len(AllPunches(calculations)) :
              /\ AllPunches(calculations)[i].position >= 0
              /\ AllPunches(calculations)[i].position <= T(lastCall.profileData.length)

C12_Witness ==
    /\ lastCall.op = "update" /\ ~isManualMode /\ InDocumentedRanges(lastCall.profileData)
    /\ \E i \in 1..Len(lastCall.profileData.stubPositions) :
          lastCall.profileData.stubPositions[i] > T(lastCall.profileData.length)
    /\ \E i \in 1..Len(lastCall.profileData.stubPositions) :
          lastCall.profileData.stubPositions[i] < 0
    /\ \E i \in 1..Len(calculations.stubs) : calculations.stubs[i].position = T(700)
    /\ \E i \in 1..Len(calculations.boltHoles) :
          calculations.boltHoles[i].position = T(lastCall.profileData.length) - T(30)

\* C13: every position stored in the layout is a multiple of half a
\* millimetre
C13_AllQuantised ==
    \A i \in 1..Len(AllPunches(calculations)) : AllPunches(calculations)[i].position % 5 = 0


\* C14: the CSV punch fields, read back, are the active punches of the five
\* lists, each once as (station, round_half(position)) with CORNER BRACKETS
\* written as SERVICE, no disabled punch among them, in non-decreasing
\* position order
C14_CsvIsActivePunches ==
    LET parsed == ParseCSV(CsvLine)
        active == ActivePunches(calculations)
        expected == [i \in 1..Len(active) |->
                        [kind |-> ExportKind(active[i].type),
                         position |-> roundHalf(active[i].position)]]
    IN  /\ Len(CsvLine) = 12 + 2 * Len(active)
        /\ SameMembers(parsed, expected)
        /\ IsAscending(parsed)

C14_Witness ==
    /\ isManualMode
    /\ calculations.serviceHoles = <<[position |-> T(600), active |-> FALSE,
                                      type |-> "M SERVICE HOLE"]>>
    /\ calculations.stubs = <<[position |-> T(131), active |-> TRUE,
                               type |-> "CORNER BRACKETS"]>>
    /\ ParseCSV(CsvLine) = << [kind |-> "SERVICE", position |-> T(131)] >>

\* C15 as stated: of two active punches sharing a position, a bolt hole or
\* dimple is written before a web tab, service hole or stub
C15_FlangeBeforeWeb ==
    LET parsed == ParseCSV(CsvLine)
    IN  \A i, j \in 1..Len(parsed) :
           (/\ i < j
            /\ parsed[i].kind \notin FlangeKinds
            /\ parsed[j].kind \in FlangeKinds
            /\ parsed[i].position = parsed[j].position)
           => ~SharePosition(calculations, parsed[i].position, parsed[i].kind, parsed[j].kind)

\* C15: of two active punches sharing a position, the one whose list
\* generateCSV reads first (bolt holes, web tabs, service holes, dimples,
\* stubs) is written first
C15_ListOrderAtSharedPosition ==
    LET parsed == ParseCSV(CsvLine)
    IN  \A i, j \in 1..Len(parsed) :
           (/\ i < j
            /\ ListRank(parsed[i].kind) > ListRank(parsed[j].kind)
            /\ parsed[i].position = parsed[j].position)
           => ~SharePosition(calculations, parsed[i].position, parsed[i].kind, parsed[j].kind)

C15_Witness ==
    /\ isManualMode
    /\ calculations.dimples = <<[position |-> T(600), active |-> TRUE, type |-> "DIMPLE"]>>
    /\ calculations.webHoles = <<[position |-> T(600), active |-> TRUE, type |-> "WEB TAB"]>>
    /\ lastCall.punches[1].type = "DIMPLE"
    /\ ParseCSV(CsvLine) = << [kind |-> "WEB TAB", position |-> T(600)],
                              [kind |-> "DIMPLE", position |-> T(600)] >>

\* C16: after an update lengthMod + endExclusion is the length of the most
\* recent updateCalculations and both length fields of the CSV line carry
\* it; before any update both length fields are 5200
C16_CsvLength ==
    /\ lastCall.memberLength # 0
         => /\ calculations.lengthMod + calculations.endExclusion = lastCall.memberLength
            /\ ParseNumber(CsvLine[7]) = lastCall.memberLength
            /\ ParseNumber(CsvLine[10]) = lastCall.memberLength
    /\ lastCall.memberLength = 0
         => /\ ParseNumber(CsvLine[7]) = T(5200)
            /\ ParseNumber(CsvLine[10]) = T(5200)

C16_Witness ==
    /\ isManualMode
    /\ lastCall.op = "update"
    /\ lastCall.memberLength = T(900)
    /\ CsvLine[7] = <<"9", "0", "0">>

\* the documented table: rows (bound, variant, spacing) in order
SpanTable(kpaRating) ==
    IF kpaRating = "2.5"
    THEN << <<6800, "Joist Single", 600>>, <<7600, "Joist Single", 500>>,
            <<8600, "Joist Single", 400>>, <<9550, "Joist Single", 300>>,
            <<9100, "Joist Box", 600>>, <<9750, "Joist Box", 500>>,
            <<10600, "Joist Box", 400>>, <<11750, "Joist Box", 300>> >>
    ELSE << <<4500, "Joist Single", 600>>, <<5100, "Joist Single", 500>>,
            <<5850, "Joist Single", 400>>, <<7000, "Joist Single", 300>>,
            <<7700, "Joist Box", 500>>, <<8350, "Joist Box", 400>>,
            <<9300, "Joist Box", 300>> >>
\* the first row whose bound is >= length, or the exceeds row
FirstRow(table, length) ==
    LET hits == {i \in 1..Len(table) : table[i][1] >= length}
    IN  IF hits = {} THEN Recommendation("Joist Box", 300, TRUE)
        ELSE LET first == CHOOSE i \in hits : \A j \in hits : i <= j
             IN  Recommendation(table[first][2], table[first][3], FALSE)

\* C17: the advisor returns the first row of the documented table whose
\* bound is >= length; at 2.5 kPa lengths in (8600, 9550] give Single 300
\* and Box 600 is never returned; exceeds_limit is set exactly above 11750
\* (2.5 kPa) and 9300 (5.0 kPa), with Box 300; the form's copy agrees
C17_AdvisorFollowsTable ==
    lastCall.op = "advise" =>
       /\ lastCall.result = FirstRow(SpanTable(lastCall.kpaRating), lastCall.length)
       /\ (lastCall.kpaRating = "2.5" /\ lastCall.length > 8600 /\ lastCall.length <= 9550)
             => lastCall.result = Recommendation("Joist Single", 300, FALSE)
       /\ ~(lastCall.result.profileType = "Joist Box" /\ lastCall.result.joistSpacing = 600)
       /\ lastCall.result.exceedsLimit
             <=> lastCall.length > (IF lastCall.kpaRating = "2.5" THEN 11750 ELSE 9300)
       /\ lastCall.result.exceedsLimit
             => lastCall.result = Recommendation("Joist Box", 300, TRUE)
       /\ lastCall.formResult = lastCall.result

C17_Witness ==
    /\ lastCall.op = "advise"
    /\ lastCall.kpaRating = "2.5"
    /\ lastCall.length = 9100
    /\ lastCall.result = Recommendation("Joist Single", 300, FALSE)

\* C18: for one rating, of two lengths given the same variant the longer
\* one never gets the larger joist spacing
C18_AdvisorMonotone ==
    lastCall.op = "advise" =>
       \A shorter \in AdviseLengths :
          (/\ shorter <= lastCall.length
           /\ getSpanTableRecommendation(shorter, lastCall.kpaRating).profileType
                 = lastCall.result.profileType)
          => lastCall.result.joistSpacing
                <= getSpanTableRecommendation(shorter, lastCall.kpaRating).joistSpacing

C18_Witness ==
    /\ lastCall.op = "advise"
    /\ lastCall.kpaRating = "5.0"
    /\ lastCall.length = 8350
    /\ lastCall.result = Recommendation("Joist Box", 400, FALSE)
    /\ getSpanTableRecommendation(7700, "5.0") = Recommendation("Joist Box", 500, FALSE)


SpanLimitIssues == SelectSeq(lastCall.issues, LAMBDA issue : issue.type = "span-limit")
\* the most recent call was detectClashes; lastCall holds what it returned
DetectorRan == lastCall.op = "detect"
IsJoistProfile(pd) == pd.profileType \in {"Joist Single", "Joist Box"}
IsBearerProfile(pd) == pd.profileType \in {"Bearer Single", "Bearer Box"}

\* C19: with a rating set, a joist longer than SPAN_LIMITS[kpa] gets exactly
\* one span-limit issue, an error; a bearer whose joist length is over the
\* limit gets exactly one, a warning; every other profile gets none; and the
\* limit is the length above which the advisor sets exceedsLimit.
C19_SpanLimitRule ==
    /\ \A kpa \in {"2.5", "5.0"} :
          /\ ~getSpanTableRecommendation(SPAN_LIMITS[kpa], kpa).exceedsLimit
          /\ getSpanTableRecommendation(SPAN_LIMITS[kpa] + 1, kpa).exceedsLimit
    /\ DetectorRan =>
          LET pd == lastCall.profileData
          IN  IF pd.kpaRating # "" /\ IsJoistProfile(pd)
                 /\ pd.length > SPAN_LIMITS[pd.kpaRating]
              THEN SpanLimitIssues = <<Issue("span-limit", <<>>, "error")>>
              ELSE IF pd.kpaRating # "" /\ IsBearerProfile(pd)
                      /\ pd.joistLength > SPAN_LIMITS[pd.kpaRating]
              THEN SpanLimitIssues = <<Issue("span-limit", <<>>, "warning")>>
              ELSE SpanLimitIssues = <<>>

C19_Witness ==
    /\ DetectorRan
    /\ isManualMode
    /\ IsBearerProfile(lastCall.profileData)
    /\ lastCall.profileData.kpaRating = "5.0"
    /\ lastCall.profileData.joistLength = 9301
    /\ SpanLimitIssues = <<Issue("span-limit", <<>>, "warning")>>

OutOfRange(punch) ==
    punch.position < 0 \/ punch.position > calculations.lengthMod + calculations.endExclusion

\* C20: in Manual mode, every active punch of the layout whose position is
\* below 0 or beyond the member length has at least one issue at its position.
C20_OutOfRangeReported ==
    (DetectorRan /\ isManualMode) =>
       \A i \in 1..Len(AllPunches(calculations)) :
          LET punch == AllPunches(calculations)[i]
          IN  (punch.active /\ OutOfRange(punch)) =>
                 \E k \in 1..Len(lastCall.issues) :
                    lastCall.issues[k].position = <<punch.position>>

AlignmentIssues == SelectSeq(lastCall.issues, LAMBDA issue : issue.type = "alignment")

\* the web tabs of the layout that lack their partner bolt, in ascending order
UnpairedWebTabs ==
    LET profileLength == calculations.lengthMod + calculations.endExclusion
        tabs == SortByPosition(SelectSeq(calculations.webHoles, LAMBDA w : w.active))
        HasBolt(k) ==
            \E b \in 1..Len(calculations.boltHoles) :
               /\ calculations.boltHoles[b].active
               /\ calculations.boltHoles[b].position > T(MIN_CLEARANCE)
               /\ calculations.boltHoles[b].position < profileLength - T(MIN_CLEARANCE)
               /\ Abs(calculations.boltHoles[b].position
                      - (tabs[k].position + (IF k % 2 = 1 THEN -295 ELSE 295)))
                     < T(POSITION_TOLERANCE)
    IN  Flatten([k \in 1..Len(tabs) |-> IF HasBolt(k) THEN <<>> ELSE <<tabs[k]>>])

\* C21: on a bearer the alignment issues are one warning per active web tab
\* without its partner bolt (an active bolt strictly inside (50, length - 50)
\* within 10 mm of the tab's position -29.5 / +29.5 alternating) and none
\* for a web tab with its bolt; a joist gets no alignment issue.
C21_OneAlignmentWarningPerTab ==
    DetectorRan =>
       IF IsBearerProfile(lastCall.profileData)
       THEN AlignmentIssues
               = [k \in 1..Len(UnpairedWebTabs) |->
                     Issue("alignment", <<UnpairedWebTabs[k].position>>, "warning")]
       ELSE AlignmentIssues = <<>>

\* the layout holds the two end bolts, active, and nothing else
OnlyEndBolts ==
    LET profileLength == calculations.lengthMod + calculations.endExclusion
    IN  /\ Len(calculations.boltHoles) = 2
        /\ \A i \in 1..2 : calculations.boltHoles[i].active
        /\ {calculations.boltHoles[1].position, calculations.boltHoles[2].position}
              = {T(30), profileLength - T(30)}
        /\ calculations.webHoles = <<>>
        /\ calculations.serviceHoles = <<>>
        /\ calculations.dimples = <<>>
        /\ calculations.stubs = <<>>

SpanWithinLimit(pd) ==
    \/ pd.kpaRating = ""
    \/ IsJoistProfile(pd) /\ pd.length <= SPAN_LIMITS[pd.kpaRating]
    \/ IsBearerProfile(pd) /\ pd.joistLength <= SPAN_LIMITS[pd.kpaRating]

\* C22: a layout of only the two end bolts, with the span within the limit
\* or no rating set, gets no issue, errorCount 0 and warningCount 0.
C22_EndBoltsOnlyNoIssues ==
    (DetectorRan /\ OnlyEndBolts /\ SpanWithinLimit(lastCall.profileData)) =>
       /\ lastCall.issues = <<>>
       /\ lastCall.errorCount = 0
       /\ lastCall.warningCount = 0

C22_Witness ==
    /\ DetectorRan
    /\ OnlyEndBolts
    /\ isManualMode
    /\ lastCall.profileData.profileType = "Joist Box"
    /\ lastCall.profileData.length = 9000
    /\ lastCall.profileData.kpaRating = "5.0"
    /\ lastCall.issues = <<>>

Planned == lastCall.op = "update" /\ ~isManualMode

\* C23: a bearer with joistBox and screens off has no web tabs, whatever the
\* punch stations enabled.
C23_JoistBoxNoWebTabs ==
    (/\ Planned
     /\ IsBearerProfile(lastCall.profileData)
     /\ lastCall.profileData.joistBox
     /\ ~lastCall.profileData.screensEnabled)
       => calculations.webHoles = <<>>

\* C24: a bearer in normal mode (screens off, joistBox off) with stubsEnabled
\* false has an empty stubs list.
C24_NoStubsWhenDisabled ==
    (/\ Planned
     /\ IsBearerProfile(lastCall.profileData)
     /\ ~lastCall.profileData.joistBox
     /\ ~lastCall.profileData.screensEnabled
     /\ ~lastCall.profileData.stubsEnabled)
       => calculations.stubs = <<>>

PlannedScenario1 == Planned /\ lastCall.profileData = Scenario1

\* C25: the scenario-1 bearer has 11 dimples, 479.5, 929.5, ... at 450 mm
\* steps, the last one at 4979.5.
C25_ElevenDimples ==
    PlannedScenario1 =>
       calculations.dimples
          = [k \in 1..11 |-> Punch(T(479) + 5 + (k - 1) * T(450), "DIMPLE")]

\* C25 as amended: the scenario-1 bearer has 10 dimples, 479.5, 929.5, ...
\* at 450 mm steps, the last one at 4529.5 (the last step not beyond
\* length - 270.5 = 4929.5).
C25_TenDimples ==
    PlannedScenario1 =>
       /\ calculations.dimples
             = [k \in 1..10 |-> Punch(T(479) + 5 + (k - 1) * T(450), "DIMPLE")]
       /\ calculations.dimples[10].position = T(4529) + 5

C25_Witness ==
    /\ PlannedScenario1
    /\ Len(calculations.dimples) = 10
    /\ calculations.dimples[1].position = T(479) + 5

\* centre-to-centre distance of a web tab and a service hole of the layout
TabToHole(w, h) == Abs(calculations.webHoles[w].position - calculations.serviceHoles[h].position)

\* C26: on a joist in normal mode with service holes and web tabs enabled,
\* every web tab is at least 150 mm from every service hole centre.
C26_WebTabsClearOfServiceHoles ==
    (/\ Planned
     /\ IsJoistProfile(lastCall.profileData)
     /\ ~lastCall.profileData.screensEnabled
     /\ lastCall.profileData.holeType # "No Holes")
       => \A w \in 1..Len(calculations.webHoles), h \in 1..Len(calculations.serviceHoles) :
             TabToHole(w, h) >= T(150)

\* the web tab w is at none of the ideal positions, evenly spaced between
\* the first and the last service hole
OffIdeal(w) ==
    LET first == calculations.serviceHoles[1].position
        last == calculations.serviceHoles[Len(calculations.serviceHoles)].position
        count == NumCeil(NumDivI(NumTenths(last - first), 2600))
    IN  \A i \in 1..count :
           calculations.webHoles[w].position
              # roundHalfNum(NumAdd(NumTenths(first),
                                    NumMulI(NumDivI(NumTenths(last - first), count + 1), i)))

\* a web tab moved to 150 mm from the conflicting service hole
ShiftedTab ==
    \E w \in 1..Len(calculations.webHoles), h \in 1..Len(calculations.serviceHoles) :
       OffIdeal(w) /\ TabToHole(w, h) = T(150)

C26_Witness ==
    /\ Planned
    /\ IsJoistProfile(lastCall.profileData)
    /\ lastCall.profileData.holeType # "No Holes"
    /\ ShiftedTab

\* the detector returned an edge clearance error at the position
EdgeErrorAt(pos) ==
    \E k \in 1..Len(lastCall.issues) :
       lastCall.issues[k] = Issue("clearance", <<pos>>, "error")

\* C27: an active LARGE SERVICE HOLE gets an edge clearance error exactly
\* when its centre is below 200 or beyond length - 200.
C27_LargeHoleRadius200 ==
    DetectorRan =>
       \A h \in 1..Len(calculations.serviceHoles) :
          LET hole == calculations.serviceHoles[h]
              profileLength == calculations.lengthMod + calculations.endExclusion
          IN  (hole.active /\ hole.type = "LARGE SERVICE HOLE") =>
                 (EdgeErrorAt(hole.position)
                    <=> (hole.position < T(200) \/ hole.position > profileLength - T(200)))

\* the detector ran on plan(spec) for the scenario
PlannedScenario4 ==
    DetectorRan /\ lastCall.profileData = Scenario4 /\ calculations = Plan(Scenario4)

\* C28: for scenario 1 with length 12000 at 5.0 kPa the advisor returns
\* (Joist Box, 300, exceedsLimit) and the detector returns a span-limit
\* warning and no issue of severity error.
C28_Scenario4SpanWarning ==
    /\ getSpanTableRecommendation(Scenario4.length, Scenario4.kpaRating)
          = Recommendation("Joist Box", 300, TRUE)
    /\ PlannedScenario4 =>
          /\ \E k \in 1..Len(lastCall.issues) :
                lastCall.issues[k] = Issue("span-limit", <<>>, "warning")
          /\ lastCall.errorCount = 0

\* C28 as amended: for scenario 1 with length 12000 at 5.0 kPa the advisor
\* returns (Joist Box, 300, exceedsLimit); the detector returns no issue of
\* severity error, and a span-limit warning only when the joist length of
\* the bearer is over the limit, which the scenario's 6000 is not.
C28_Scenario4NoSpanWarning ==
    /\ getSpanTableRecommendation(Scenario4.length, Scenario4.kpaRating)
          = Recommendation("Joist Box", 300, TRUE)
    /\ \A jl \in {0, 6000, 9300, 9301, 12000} :
          (/\ DetectorRan
           /\ lastCall.profileData = [Scenario4 EXCEPT !.joistLength = jl]
           /\ calculations = Plan(lastCall.profileData)) =>
             /\ lastCall.errorCount = 0
             /\ SpanLimitIssues = IF jl > SPAN_LIMITS["5.0"]
                                  THEN <<Issue("span-limit", <<>>, "warning")>>
                                  ELSE <<>>

C28_Witness ==
    /\ PlannedScenario4
    /\ SpanLimitIssues = <<>>
    /\ lastCall.warningCount = 4
    /\ lastCall.errorCount = 0

\* C29: the detector returns no alignment issue for the plan of a bearer
\* without joist box whose BOLT HOLE and WEB TAB stations are enabled, in
\* normal and in screens mode.
C29_PlannedBearersAligned ==
    (/\ DetectorRan
     /\ IsBearerProfile(lastCall.profileData)
     /\ ~lastCall.profileData.joistBox
     /\ {"BOLT HOLE", "WEB TAB"} \subseteq lastCall.profileData.punchStations
     /\ calculations = Plan(lastCall.profileData))
       => AlignmentIssues = <<>>

\* a screens-mode plan whose last two web tabs are 25 mm apart
C29_Witness ==
    /\ DetectorRan
    /\ IsBearerProfile(lastCall.profileData)
    /\ lastCall.profileData.screensEnabled
    /\ calculations = Plan(lastCall.profileData)
    /\ Len(calculations.webHoles) >= 4
    /\ \E w \in 1..(Len(calculations.webHoles) - 1) :
          calculations.webHoles[w + 1].position - calculations.webHoles[w].position = T(25)
    /\ AlignmentIssues = <<>>

DistinctPositions(s) == \A i, j \in 1..Len(s) : i # j => s[i].position # s[j].position

\* C30: in Computed mode no list of the layout holds two punches at the
\* same position.
C30_NoRepeatedPosition ==
    Planned =>
       /\ DistinctPositions(calculations.boltHoles)
       /\ DistinctPositions(calculations.webHoles)
       /\ DistinctPositions(calculations.serviceHoles)
       /\ DistinctPositions(calculations.dimples)
       /\ DistinctPositions(calculations.stubs)

====
